---------------------------- MODULE Spec2Model ----------------------------
(***************************************************************************)
(* Mempool-driven fee-rate forecasting core: the in-sync gate, the cached  *)
(* mempool estimator, the percentile sweep and the forecaster aggregator.  *)
(***************************************************************************)
EXTENDS Integers, Sequences, FiniteSets, TLC

(***************************************************************************)
(* Bounds of the model.                                                    *)
(***************************************************************************)
\* Block heights delivered by block-connected events range over 0..MaxHeight.
MaxHeight == 4
\* The steady clock runs from 0 up to MaxTime seconds.
MaxTime == 32
\* Cache keys (number_of_blocks) range over 0..MaxKey.
MaxKey == 1
\* Fee rates of the percentile sweep's input range over 0..MaxRate (sat/kvB).
MaxRate == 2
\* The percentile sweep's input holds up to MaxLen entries.
MaxLen == 3
\* Up to MaxForecasters forecasters are registered with the aggregator.
MaxForecasters == 3

VARIABLES
    top_blocks,     \* MemPoolPolicyEstimator::top_blocks, std::array<block_info, 3>
    hist,           \* observer: the last (up to three) block-connected events
    started_empty,  \* observer: the ring held three {0, false} slots at construction
    estimates,      \* CachedMempoolEstimates::estimates
    last_updated,   \* CachedMempoolEstimates::last_updated (seconds)
    now,            \* std::chrono::steady_clock::now() (seconds)
    last_m,         \* observer: the map passed to the latest update(), if any
    updated_at,     \* observer: the clock reading at the latest update()
    ever_keys,      \* observer: every key some update() has carried
    load_tried,     \* CTxMemPool::GetLoadTried()
    call,           \* observer: the latest EstimateFeeWithMemPool call and what it did
    fee_stats,      \* the (fee_rate, vsize) list handed to the percentile sweep
    percentiles,    \* the MempoolFeeEstimationResult the sweep returned, if it ran
    forecasters,    \* FeeEstimator::forecasters
    answer,         \* observer: the latest GetFeeEstimateFromForecasters call and its result
    blocks_percentile,    \* LastBlockForecaster::blocks_percentile
    lb_chain_tip_height,  \* LastBlockForecaster::chain_tip_height
    blocks_percentiles,   \* BlockForecaster::blocks_percentiles, std::queue<BlockPercentiles>
    bf_chain_tip_height,  \* BlockForecaster::chain_tip_height
    mp_cache,             \* MemPoolForecaster::cache: the cached percentiles and their time
    fc_call,              \* observer: the latest EstimateFee call on a forecaster
    fc_event,             \* observer: the latest block-connected event of the forecasters
    fc_subject,           \* which forecaster object the specification drives
    tracking_stats,       \* NTime::tracking_stats
    get_time,              \* GetTime() as NTime reads it (seconds)
    nt_call,              \* observer: the latest NTime call and what it did
    nt_updates,           \* observer: how often UpdateTrackingStats has run
    linearized,           \* the linearization MemPoolLast10MinForecaster is handed
    block_fee_stats,      \* the sample MemPoolLast10MinForecaster built from it, if it ran
    lk_call,              \* the running EstimateFeeWithMemPool call: its object and inputs
    lk_todo,              \* the steps that call has still to take, in order
    lk_held,              \* the locks its thread holds, in the order it took them
    lk_step,              \* observer: the step just taken and the locks held around it
    nr_reader,            \* the EstimateFee call a thread is inside of, if any, reading the grid
    nr_writer,            \* the grid mutation the notification thread is inside of, if any
    nr_done,              \* observer: the latest mutation that completed, and the grid before it
    ff_in,                \* the arguments of the FeeFrac function under check
    ff_out,               \* what the function returned for them, once it ran
    sm_pc,                \* where each thread stands in CachedMempoolEstimates::get or update
    sm_shared,            \* how often each thread owns cache_mutex in shared mode
    sm_write_entered,     \* cache_mutex: a writer owns it or has announced itself
    sm_writer_first,      \* the build: lock_shared waits behind an announced writer
    sm_calls,             \* calls of get and update begun
    lb_reader,            \* the LastBlockForecaster::EstimateFee call a thread is inside of, and what it has read
    lb_writer,            \* the block-connected callback the notification thread is inside of
    lb_returned,          \* observer: what the latest EstimateFee call returned
    lb_connects           \* block-connected callbacks begun

gate_vars == <<top_blocks, hist, started_empty>>
cache_vars == <<estimates, last_updated, now, last_m, updated_at, ever_keys>>
est_vars == <<load_tried, call>>
pct_vars == <<fee_stats, percentiles>>
agg_vars == <<forecasters, answer>>
fc_vars == <<blocks_percentile, lb_chain_tip_height, blocks_percentiles, bf_chain_tip_height,
             mp_cache, fc_call, fc_event, fc_subject>>
ntime_vars == <<tracking_stats, get_time, nt_call, nt_updates>>
tenmin_vars == <<linearized, block_fee_stats>>
lock_vars == <<lk_call, lk_todo, lk_held, lk_step>>
race_vars == <<nr_reader, nr_writer, nr_done>>
feefrac_vars == <<ff_in, ff_out>>
shared_mutex_vars == <<sm_pc, sm_shared, sm_write_entered, sm_writer_first, sm_calls>>
last_block_race_vars == <<lb_reader, lb_writer, lb_returned, lb_connects>>
unit_vars == <<lock_vars, race_vars, feefrac_vars, shared_mutex_vars, last_block_race_vars>>
forecaster_vars == <<fc_vars, ntime_vars, tenmin_vars, unit_vars>>
vars == <<top_blocks, hist, started_empty,
          estimates, last_updated, now, last_m, updated_at, ever_keys,
          load_tried, call, fee_stats, percentiles, forecasters, answer,
          blocks_percentile, lb_chain_tip_height, blocks_percentiles, bf_chain_tip_height,
          mp_cache, fc_call, fc_event, fc_subject, tracking_stats, get_time, nt_call, nt_updates,
          linearized, block_fee_stats,
          lk_call, lk_todo, lk_held, lk_step,
          nr_reader, nr_writer, nr_done,
          ff_in, ff_out,
          sm_pc, sm_shared, sm_write_entered, sm_writer_first, sm_calls,
          lb_reader, lb_writer, lb_returned, lb_connects>>

(***************************************************************************)
(* In-sync gate (MemPoolPolicyEstimator::top_blocks and its operations).   *)
(***************************************************************************)
\* struct block_info { unsigned int height; bool roughly_synced; }
block_info == [height : 0..MaxHeight, roughly_synced : BOOLEAN]

\* The value the code writes into a slot it empties: {0, false}.
EmptySlot == [height |-> 0, roughly_synced |-> FALSE]

\* top_blocks = {new_blk_info, {0, false}, {0, false}};
ResetRing(new_blk_info) == <<new_blk_info, EmptySlot, EmptySlot>>

\* The loop of AreTopBlocksInOrder from index i (1-based) with the running height.
RECURSIVE InOrderFrom(_, _, _)
InOrderFrom(tb, i, curr_height) ==
    IF i > Len(tb) THEN TRUE
    ELSE IF tb[i].height = 0 THEN TRUE
    ELSE IF curr_height + 1 # tb[i].height THEN FALSE
    ELSE InOrderFrom(tb, i + 1, curr_height + 1)

AreTopBlocksInOrder(tb) ==
    IF tb[1].height = 0 THEN TRUE ELSE InOrderFrom(tb, 2, tb[1].height)

\* The order check alone, without the roughly_synced flags.
RoughlySynced_OrderOnly(tb) == AreTopBlocksInOrder(tb)

RoughlySynced(tb) ==
    AreTopBlocksInOrder(tb) /\ \A i \in 1..Len(tb) : tb[i].roughly_synced

\* std::find_if(top_blocks.begin(), top_blocks.end(), height == 0): the index of
\* the first slot of height 0, or Len(tb) + 1 for end().
FirstEmpty(tb) ==
    IF \E i \in 1..Len(tb) : tb[i].height = 0
    THEN CHOOSE i \in 1..Len(tb) : tb[i].height = 0 /\ \A j \in 1..(i - 1) : tb[j].height # 0
    ELSE Len(tb) + 1

\* std::rotate(begin, begin + 1, end); top_blocks.back() = new_blk_info;
RotateIn(tb, new_blk_info) == <<tb[2], tb[3], new_blk_info>>

\* InsertNewBlock: the set of rings the call can leave.  When the first empty
\* slot is begin(), std::prev(empty_block_it) points before the array and the
\* height read there is indeterminate: the comparison may come out either way.
InsertNewBlock(tb, new_blk_info) ==
    LET e == FirstEmpty(tb) IN
    IF e <= Len(tb) THEN
        IF e = 1
        THEN {[tb EXCEPT ![1] = new_blk_info], ResetRing(new_blk_info)}
        ELSE IF tb[e - 1].height + 1 = new_blk_info.height
             THEN {[tb EXCEPT ![e] = new_blk_info]}
             ELSE {ResetRing(new_blk_info)}
    ELSE IF tb[Len(tb)].height + 1 = new_blk_info.height
         THEN {RotateIn(tb, new_blk_info)}
         ELSE {ResetRing(new_blk_info)}

UpdateTopBlocks(tb, new_blk_info) ==
    IF AreTopBlocksInOrder(tb)
    THEN InsertNewBlock(tb, new_blk_info)
    ELSE {ResetRing(new_blk_info)}

\* Observer: keep the last three events.
Remember(h, ev) ==
    IF Len(h) < 3 THEN Append(h, ev) ELSE <<h[2], h[3], ev>>

\* The constructor leaves top_blocks uninitialised: any content.
InitGateVars ==
    /\ top_blocks \in [1..3 -> block_info]
    /\ started_empty = (top_blocks = <<EmptySlot, EmptySlot, EmptySlot>>)
    /\ hist = <<>>

\* The {nBlockHeight, roughly_synced} a connected block can carry: a block
\* above genesis has a height of at least 1.
NewBlockInfos == [height : 1..MaxHeight, roughly_synced : BOOLEAN]

\* A block-connected event reaches UpdateTopBlocks with {nBlockHeight, roughly_synced}.
BlockConnected ==
    \E new_blk_info \in NewBlockInfos :
        /\ top_blocks' \in UpdateTopBlocks(top_blocks, new_blk_info)
        /\ hist' = Remember(hist, new_blk_info)
        /\ UNCHANGED <<started_empty, cache_vars, est_vars, pct_vars, agg_vars, forecaster_vars>>

(***************************************************************************)
(* CachedMempoolEstimates.                                                 *)
(***************************************************************************)
\* static constexpr std::chrono::seconds cache_life{30};
cache_life == 30

\* std::optional<T>: std::nullopt is the empty tuple, a value v is <<v>>.
Nullopt == <<>>
Some(v) == <<v>>

\* An error message that was not set.
None == "nullopt"

\* MempoolFeeEstimationResult: four fee rates in sat/kvB.
Result(a, b, c, d) == [p5 |-> a, p25 |-> b, p50 |-> c, p75 |-> d]

\* MempoolFeeEstimationResult() : every percentile CFeeRate(0).
EmptyResult == Result(0, 0, 0, 0)

\* bool empty() const
IsEmptyResult(r) == r.p5 = 0 /\ r.p25 = 0 /\ r.p50 = 0 /\ r.p75 = 0

Keys == 0..MaxKey

\* The estimates the cache is fed with in the cache's own specification.
CacheValues == {EmptyResult, Result(1, 2, 3, 4), Result(2, 2, 2, 0)}

\* Every std::map<uint64_t, MempoolFeeEstimationResult> over Keys and CacheValues.
CacheMaps == UNION {[D -> CacheValues] : D \in SUBSET Keys}

\* A cache that never expires.
isStale_Never == FALSE

\* return (last_updated + cache_life) < std::chrono::steady_clock::now();
isStale == (last_updated + cache_life) < now

\* std::optional<MempoolFeeEstimationResult> get(uint64_t number_of_blocks) const
get(number_of_blocks) ==
    IF isStale THEN Nullopt
    ELSE IF number_of_blocks \in DOMAIN estimates THEN Some(estimates[number_of_blocks])
    ELSE Nullopt

\* A merge of the new map into the old one instead of the overwrite.
update_Merge(newEstimates) ==
    /\ estimates' = [k \in DOMAIN estimates \cup DOMAIN newEstimates |->
                        IF k \in DOMAIN newEstimates THEN newEstimates[k] ELSE estimates[k]]
    /\ last_updated' = now
    /\ last_m' = Some(newEstimates)
    /\ updated_at' = now
    /\ ever_keys' = ever_keys \cup DOMAIN newEstimates
    /\ UNCHANGED now

\* void update(const std::map<...>& newEstimates): estimates = newEstimates;
\* last_updated = steady_clock::now();
update(newEstimates) ==
    /\ estimates' = newEstimates
    /\ last_updated' = now
    /\ last_m' = Some(newEstimates)
    /\ updated_at' = now
    /\ ever_keys' = ever_keys \cup DOMAIN newEstimates
    /\ UNCHANGED now

\* CachedMempoolEstimates() : last_updated(now() - cache_life - seconds(1))
InitCacheVars ==
    /\ now = 0
    /\ estimates = <<>>
    /\ last_updated = now - cache_life - 1
    /\ last_m = Nullopt
    /\ updated_at = 0
    /\ ever_keys = {}

\* The steady clock advances by d seconds.
Tick(d) ==
    /\ now + d <= MaxTime
    /\ now' = now + d
    /\ UNCHANGED <<estimates, last_updated, last_m, updated_at, ever_keys>>

(***************************************************************************)
(* Percentile sweep (MemPoolPolicyEstimator::CalculateBlockPercentiles).   *)
(***************************************************************************)
\* policy/policy.h: MAX_BLOCK_WEIGHT - 4000, in weight units.
DEFAULT_BLOCK_MAX_WEIGHT == 3996000
\* consensus/consensus.h
WITNESS_SCALE_FACTOR == 4

p5_Size == DEFAULT_BLOCK_MAX_WEIGHT \div 20
p25_Size == DEFAULT_BLOCK_MAX_WEIGHT \div 4
p50_Size == DEFAULT_BLOCK_MAX_WEIGHT \div 2
p75_Size == (3 * DEFAULT_BLOCK_MAX_WEIGHT) \div 4

\* std::tuple<CFeeRate, uint64_t>
Entry(rate, size) == [fee_rate |-> rate, vsize |-> size]

\* The four assignments with the 25th and 50th percentile thresholds exchanged.
Record_Swapped(res, total_weight, entry) ==
    LET r1 == IF total_weight >= p5_Size /\ res.p5 = 0
              THEN [res EXCEPT !.p5 = entry.fee_rate] ELSE res
        r2 == IF total_weight >= p50_Size /\ r1.p25 = 0
              THEN [r1 EXCEPT !.p25 = entry.fee_rate] ELSE r1
        r3 == IF total_weight >= p25_Size /\ r2.p50 = 0
              THEN [r2 EXCEPT !.p50 = entry.fee_rate] ELSE r2
    IN  IF total_weight >= p75_Size /\ r3.p75 = 0
        THEN [r3 EXCEPT !.p75 = entry.fee_rate] ELSE r3

\* The four conditional assignments of one loop iteration, total_weight being
\* the weight accumulated up to and including the entry.
Record(res, total_weight, entry) ==
    LET r1 == IF total_weight >= p5_Size /\ res.p5 = 0
              THEN [res EXCEPT !.p5 = entry.fee_rate] ELSE res
        r2 == IF total_weight >= p25_Size /\ r1.p25 = 0
              THEN [r1 EXCEPT !.p25 = entry.fee_rate] ELSE r1
        r3 == IF total_weight >= p50_Size /\ r2.p50 = 0
              THEN [r2 EXCEPT !.p50 = entry.fee_rate] ELSE r2
    IN  IF total_weight >= p75_Size /\ r3.p75 = 0
        THEN [r3 EXCEPT !.p75 = entry.fee_rate] ELSE r3

\* for (auto rit = start; rit != end; ++rit): the entries in sweep order.
\* total_weight is an unsigned int; the inputs keep it far below 2^31.
RECURSIVE Sweep(_, _, _, _)
Sweep(entries, i, total_weight, res) ==
    IF i > Len(entries) THEN [total_weight |-> total_weight, res |-> res]
    ELSE LET tw == total_weight + entries[i].vsize * WITNESS_SCALE_FACTOR
         IN  Sweep(entries, i + 1, tw, Record(res, tw, entries[i]))

\* The sweep without the final minimum-weight check.
CalculateBlockPercentiles_NoMinimum(entries) ==
    Sweep(entries, 1, 0, EmptyResult).res

\* CalculateBlockPercentiles(start, end) over the entries of [start, end).
CalculateBlockPercentiles(entries) ==
    LET swept == Sweep(entries, 1, 0, EmptyResult)
    IN  IF swept.total_weight < (DEFAULT_BLOCK_MAX_WEIGHT \div 2)
        THEN EmptyResult
        ELSE swept.res

\* Inputs of the sweep: sizes whose weights are W/20, W/4 and W/2.
Rates == 0..MaxRate
VSizes == {p5_Size \div WITNESS_SCALE_FACTOR, p25_Size \div WITNESS_SCALE_FACTOR,
           p50_Size \div WITNESS_SCALE_FACTOR}
Entries == [fee_rate : Rates, vsize : VSizes]
EntryLists == UNION {[1..n -> Entries] : n \in 0..MaxLen}

InitPctVars ==
    /\ fee_stats \in EntryLists
    /\ percentiles = Nullopt

(***************************************************************************)
(* MemPoolPolicyEstimator::EstimateFeeWithMemPool and the block sweep.     *)
(***************************************************************************)
\* static const unsigned int MAX_CONF_TARGET{1};
MAX_CONF_TARGET == 1

ErrTarget == "Confirmation target is above maximum limit"
ErrNotLoaded == "Mempool not finished loading, can't get accurate fee rate estimate."
ErrNotSynced == "Mempool transactions roughly not in sync with previously mined blocks, fee rate estimate won't be reliable."
ErrNoTxs == "No transactions available in the mempool yet."
ErrInsufficient == "Insufficient mempool transactions to perform an estimate."

Reverse(s) == [i \in 1..Len(s) |-> s[Len(s) + 1 - i]]

\* The while loop of EstimateBlockFeeRatesWithMempool over rs, the histogram
\* read through its reverse iterators: cur and start are positions in rs, and
\* CalculateBlockPercentiles(start, cur) sweeps [start, cur).
RECURSIVE BlockLoop(_, _, _, _, _, _)
BlockLoop(rs, cur, start, block_number, block_weight, acc) ==
    IF ~(block_number >= 1 /\ cur <= Len(rs)) THEN acc
    ELSE LET bw == block_weight + rs[cur].vsize * WITNESS_SCALE_FACTOR
             next_cur == cur + 1
         IN  IF bw >= DEFAULT_BLOCK_MAX_WEIGHT \/ next_cur > Len(rs)
             THEN BlockLoop(rs, next_cur, next_cur, block_number - 1, 0,
                            [k \in DOMAIN acc \cup {block_number} |->
                                IF k = block_number
                                THEN CalculateBlockPercentiles(SubSeq(rs, start, cur - 1))
                                ELSE acc[k]])
             ELSE BlockLoop(rs, next_cur, start, block_number, bw, acc)

EstimateBlockFeeRatesWithMempool(mempool_fee_stats, confTarget) ==
    IF mempool_fee_stats = <<>> THEN <<>>
    ELSE BlockLoop(Reverse(mempool_fee_stats), 1, 1, confTarget, 0, <<>>)

\* The early returns without the in-sync gate.
EarlyReturn_NoGate(confTarget) ==
    IF confTarget > MAX_CONF_TARGET THEN ErrTarget
    ELSE IF ~load_tried THEN ErrNotLoaded
    ELSE None

\* The three early returns of EstimateFeeWithMemPool: the error message of the
\* first check that fails, or None when the call goes on.
EarlyReturn(confTarget) ==
    IF confTarget > MAX_CONF_TARGET THEN ErrTarget
    ELSE IF ~load_tried THEN ErrNotLoaded
    ELSE IF ~RoughlySynced(top_blocks) THEN ErrNotSynced
    ELSE None

\* What the observer keeps of a call: its inputs, what GetLoadTried() and
\* RoughlySynced() were when it was made, the returned result, the error
\* message it set (None when it set none), and whether it took the mempool
\* snapshot (GetCustomBlockFeeRateHistogram) and called cache.get.
Called(confTarget, force, res, err, snap, read) ==
    Some([confTarget |-> confTarget, force |-> force,
          loaded |-> load_tried, synced |-> RoughlySynced(top_blocks),
          result |-> res, err_message |-> err, snapshot |-> snap, cache_get |-> read])

\* MempoolFeeEstimationResult EstimateFeeWithMemPool(chainstate, mempool,
\* confTarget, force, err_message), mempool_fee_stats being the histogram the
\* mempool would yield.
EstimateFeeWithMemPool(confTarget, force, mempool_fee_stats) ==
    LET early == EarlyReturn(confTarget)
        cached_fee == IF ~force THEN get(confTarget) ELSE Nullopt
        blocks_fee_rates_estimates ==
            EstimateBlockFeeRatesWithMempool(mempool_fee_stats, MAX_CONF_TARGET)
        computed == IF confTarget \in DOMAIN blocks_fee_rates_estimates
                    THEN blocks_fee_rates_estimates[confTarget]
                    ELSE EmptyResult
        Finish(res) == IF IsEmptyResult(res) THEN ErrInsufficient ELSE None
    IN  IF early # None
        THEN /\ call' = Called(confTarget, force, EmptyResult, early, FALSE, FALSE)
             /\ UNCHANGED cache_vars
        ELSE IF cached_fee # Nullopt
        THEN /\ call' = Called(confTarget, force, cached_fee[1], Finish(cached_fee[1]),
                               FALSE, TRUE)
             /\ UNCHANGED cache_vars
        ELSE IF mempool_fee_stats = <<>>
        THEN /\ call' = Called(confTarget, force, EmptyResult, ErrNoTxs, TRUE, ~force)
             /\ UNCHANGED cache_vars
        ELSE /\ update(blocks_fee_rates_estimates)
             /\ call' = Called(confTarget, force, computed, Finish(computed), TRUE, ~force)

\* The histograms the mempool yields, in the order of the returned vector
\* (the sweep reads them back to front).
MempoolSnapshots ==
    {<<>>,
     <<Entry(1, p50_Size \div WITNESS_SCALE_FACTOR)>>,
     <<Entry(2, p5_Size \div WITNESS_SCALE_FACTOR), Entry(1, p50_Size \div WITNESS_SCALE_FACTOR)>>,
     <<Entry(2, p5_Size \div WITNESS_SCALE_FACTOR), Entry(2, p25_Size \div WITNESS_SCALE_FACTOR),
       Entry(1, p50_Size \div WITNESS_SCALE_FACTOR)>>}

InitEstVars ==
    /\ load_tried = FALSE
    /\ call = Nullopt

\* The mempool finishes loading.
MempoolLoaded ==
    /\ ~load_tried
    /\ load_tried' = TRUE

(***************************************************************************)
(* FeeEstimator: the forecaster aggregator.                                *)
(***************************************************************************)
\* ForecastResult: the two fee rates of its options and the error message.
Forecast(l, h, err) == [low |-> l, high |-> h, err_message |-> err]

\* ForecastResult::empty(): both fee rates are zero.
IsEmptyForecast(f) == f.low = 0 /\ f.high = 0

\* ForecastResult::operator<: by high priority fee rate, then by low priority.
ForecastLess(a, b) == a.high < b.high \/ (a.high = b.high /\ a.low < b.low)

\* The targets the aggregator is asked for and what a forecaster may answer:
\* an empty result with one of two error strings, an empty result without an
\* error string (LastBlockForecaster and BlockForecaster return one when the
\* 25th and 50th percentiles they hold are zero), or fee rates.
AggTargets == {1, 2}
Responses == {Forecast(0, 0, "forecaster error A"), Forecast(0, 0, "forecaster error B"),
              Forecast(0, 0, None),
              Forecast(10, 20, None), Forecast(8, 15, None), Forecast(10, 15, None)}

\* A forecaster is its EstimateFee: target -> ForecastResult.  The forecasters
\* registered answer target 2 as they answer target 1, or reject it.
Forecaster == {f \in [AggTargets -> Responses] :
                  f[2] \in {f[1], Forecast(0, 0, "forecaster error A")}}

\* The last non-empty forecast wins, whatever its fee rates.
Select_Last(forecast, currForecast) ==
    IF ~IsEmptyForecast(currForecast) THEN currForecast ELSE forecast

\* if (!currForecast.empty()) { if (currForecast < forecast || forecast.empty())
\* forecast = currForecast; }
Select(forecast, currForecast) ==
    IF ~IsEmptyForecast(currForecast)
    THEN IF ForecastLess(currForecast, forecast) \/ IsEmptyForecast(forecast)
         THEN currForecast ELSE forecast
    ELSE forecast

\* The for loop of GetFeeEstimateFromForecasters from forecaster i on.
RECURSIVE ForecastLoop(_, _, _, _)
ForecastLoop(fs, i, targetBlocks, acc) ==
    IF i > Len(fs) THEN acc
    ELSE LET currForecast == fs[i][targetBlocks]
         IN  ForecastLoop(fs, i + 1, targetBlocks,
                [forecast |-> Select(acc.forecast, currForecast),
                 err_messages |->
                    IF IsEmptyForecast(currForecast) /\ currForecast.err_message # None
                    THEN Append(acc.err_messages, currForecast.err_message)
                    ELSE acc.err_messages,
                 calls |-> Append(acc.calls, targetBlocks)])

InitAggVars ==
    /\ forecasters = <<>>
    /\ answer = Nullopt

\* forecasters.push_back(forecaster);
RegisterForecaster(forecaster) ==
    /\ Len(forecasters) < MaxForecasters
    /\ forecasters' = Append(forecasters, forecaster)
    /\ UNCHANGED answer

\* std::pair<ForecastResult, std::vector<std::string>>
\* GetFeeEstimateFromForecasters(targetBlocks); the observer keeps the target,
\* the forecasters asked, the targets they were called with and the pair returned.
GetFeeEstimateFromForecasters(targetBlocks) ==
    LET out == ForecastLoop(forecasters, 1, targetBlocks,
                            [forecast |-> Forecast(0, 0, None), err_messages |-> <<>>,
                             calls |-> <<>>])
    IN  /\ answer' = Some([targetBlocks |-> targetBlocks, asked |-> forecasters,
                           calls |-> out.calls, forecast |-> out.forecast,
                           err_messages |-> out.err_messages])
        /\ UNCHANGED forecasters

(***************************************************************************)
(* Specifications.                                                         *)
(***************************************************************************)
\* The parts of the state a specification leaves idle.
IdleGate == top_blocks = <<EmptySlot, EmptySlot, EmptySlot>> /\ hist = <<>>
            /\ started_empty = TRUE
IdlePct == fee_stats = <<>> /\ percentiles = Nullopt
IdleFc == /\ blocks_percentile = EmptyResult /\ lb_chain_tip_height = 0
          /\ blocks_percentiles = <<>> /\ bf_chain_tip_height = 0
          /\ mp_cache = Nullopt /\ fc_call = Nullopt /\ fc_event = Nullopt
          /\ fc_subject = "none"
IdleNTime == tracking_stats = <<>> /\ get_time = 0 /\ nt_call = Nullopt /\ nt_updates = 0
IdleTenMin == linearized = <<>> /\ block_fee_stats = Nullopt
IdleLocks == lk_call = Nullopt /\ lk_todo = <<>> /\ lk_held = <<>> /\ lk_step = Nullopt
IdleRace == nr_reader = Nullopt /\ nr_writer = Nullopt /\ nr_done = Nullopt
IdleFeeFrac == ff_in = <<>> /\ ff_out = Nullopt
IdleSharedMutex == sm_pc = <<>> /\ sm_shared = <<>> /\ sm_write_entered = FALSE
                   /\ sm_writer_first = FALSE /\ sm_calls = 0
IdleLastBlockRace == lb_reader = Nullopt /\ lb_writer = Nullopt /\ lb_returned = Nullopt
                     /\ lb_connects = 0
IdleUnits == IdleLocks /\ IdleRace /\ IdleFeeFrac /\ IdleSharedMutex /\ IdleLastBlockRace

\* The in-sync gate under block-connected events.
InitGate == InitGateVars /\ InitCacheVars /\ InitEstVars /\ IdlePct /\ InitAggVars
            /\ IdleFc /\ IdleNTime /\ IdleTenMin /\ IdleUnits

NextGate == BlockConnected

SpecGate == InitGate /\ [][NextGate]_vars

\* The cache under updates and the passing of time.
InitCache == IdleGate /\ InitCacheVars /\ InitEstVars /\ IdlePct /\ InitAggVars
             /\ IdleFc /\ IdleNTime /\ IdleTenMin /\ IdleUnits

CacheUpdate ==
    /\ \E m \in CacheMaps : update(m)
    /\ UNCHANGED <<gate_vars, est_vars, pct_vars, agg_vars, forecaster_vars>>

CacheTick ==
    /\ \E d \in {1, cache_life} : Tick(d)
    /\ UNCHANGED <<gate_vars, est_vars, pct_vars, agg_vars, forecaster_vars>>

NextCache == CacheUpdate \/ CacheTick

SpecCache == InitCache /\ [][NextCache]_vars

\* The percentile sweep applied to every bounded input list.
InitPct == IdleGate /\ InitCacheVars /\ InitEstVars /\ InitPctVars /\ InitAggVars
           /\ IdleFc /\ IdleNTime /\ IdleTenMin /\ IdleUnits

Calculate ==
    /\ percentiles = Nullopt
    /\ percentiles' = Some(CalculateBlockPercentiles(fee_stats))
    /\ UNCHANGED <<fee_stats, gate_vars, cache_vars, est_vars, agg_vars, forecaster_vars>>

NextPct == Calculate

SpecPct == InitPct /\ [][NextPct]_vars

\* The aggregator under registrations and queries.
InitAgg == IdleGate /\ InitCacheVars /\ InitEstVars /\ IdlePct /\ InitAggVars
           /\ IdleFc /\ IdleNTime /\ IdleTenMin /\ IdleUnits

Register ==
    /\ \E f \in Forecaster : RegisterForecaster(f)
    /\ UNCHANGED <<gate_vars, cache_vars, est_vars, pct_vars, forecaster_vars>>

Query ==
    /\ \E t \in AggTargets : GetFeeEstimateFromForecasters(t)
    /\ UNCHANGED <<gate_vars, cache_vars, est_vars, pct_vars, forecaster_vars>>

NextAgg == Register \/ Query

SpecAgg == InitAgg /\ [][NextAgg]_vars

\* The estimator: block-connected events, the mempool load, cache expiry and
\* EstimateFeeWithMemPool calls.
InitEst == InitGateVars /\ InitCacheVars /\ InitEstVars /\ IdlePct /\ InitAggVars
           /\ IdleFc /\ IdleNTime /\ IdleTenMin /\ IdleUnits

MempoolTransactionsRemovedForBlock ==
    /\ \E new_blk_info \in NewBlockInfos :
            top_blocks' \in UpdateTopBlocks(top_blocks, new_blk_info)
    /\ UNCHANGED <<hist, started_empty, cache_vars, est_vars, pct_vars, agg_vars, forecaster_vars>>

Loaded ==
    /\ MempoolLoaded
    /\ UNCHANGED <<call, gate_vars, cache_vars, pct_vars, agg_vars, forecaster_vars>>

Expire ==
    /\ Tick(cache_life + 1)
    /\ UNCHANGED <<gate_vars, est_vars, pct_vars, agg_vars, forecaster_vars>>

Estimate ==
    /\ \E confTarget \in 0..(MAX_CONF_TARGET + 1), force \in BOOLEAN,
          mempool_fee_stats \in MempoolSnapshots :
            EstimateFeeWithMemPool(confTarget, force, mempool_fee_stats)
    /\ UNCHANGED <<load_tried, gate_vars, pct_vars, agg_vars, forecaster_vars>>

NextEst == MempoolTransactionsRemovedForBlock \/ Loaded \/ Expire \/ Estimate

SpecEst == InitEst /\ [][NextEst]_vars

(***************************************************************************)
(* Properties.                                                             *)
(***************************************************************************)
\* The answers of the forecasters asked, at the target asked for, that are not empty.
NonEmptyAnswers(a) ==
    {a.asked[i][a.targetBlocks] : i \in {j \in 1..Len(a.asked) :
                                           ~IsEmptyForecast(a.asked[j][a.targetBlocks])}}

\* C1: GetFeeEstimateFromForecasters calls every registered forecaster with the
\* target it was given and returns, among the non-empty results, one with the
\* lowest high priority fee rate and, among those, the lowest low priority fee
\* rate, whatever the order of registration; with no non-empty result it
\* returns an empty forecast.
C1_LowestForecastSelected ==
    answer # Nullopt =>
        LET a == answer[1]
            rs == NonEmptyAnswers(a)
        IN  /\ a.calls = [i \in 1..Len(a.asked) |-> a.targetBlocks]
            /\ rs = {} => IsEmptyForecast(a.forecast)
            /\ rs # {} =>
                    /\ a.forecast \in rs
                    /\ \A r \in rs :
                          \/ a.forecast.high < r.high
                          \/ a.forecast.high = r.high /\ a.forecast.low <= r.low

\* (low 10, high 20), (low 8, high 15) and (low 10, high 15) were returned in
\* this order and the second was picked.
C1_Witness ==
    /\ answer # Nullopt
    /\ Len(answer[1].asked) = 3
    /\ answer[1].asked[1][answer[1].targetBlocks] = Forecast(10, 20, None)
    /\ answer[1].asked[2][answer[1].targetBlocks] = Forecast(8, 15, None)
    /\ answer[1].asked[3][answer[1].targetBlocks] = Forecast(10, 15, None)
    /\ answer[1].forecast = Forecast(8, 15, None)

\* All three slots are non-empty, their heights are h, h+1, h+2 and each has
\* roughly_synced = true.
FullConsecutiveSynced(tb) ==
    /\ \A i \in 1..3 : tb[i].height # 0 /\ tb[i].roughly_synced
    /\ tb[2].height = tb[1].height + 1
    /\ tb[3].height = tb[2].height + 1

\* C2: in every state reached from a ring of three empty {0, false} slots by
\* block-connected events, RoughlySynced() is true iff the three slots are
\* non-empty, consecutive and all roughly synced.
C2_RoughlySyncedIffFullConsecutiveSynced ==
    started_empty => (RoughlySynced(top_blocks) <=> FullConsecutiveSynced(top_blocks))

\* A ring that started empty and is roughly synced after three events.
C2_Witness ==
    started_empty /\ Len(hist) = 3 /\ RoughlySynced(top_blocks)

\* The last three events had heights h, h+1, h+2 (h >= 1), all roughly synced.
ThreeSyncedBlocks ==
    /\ Len(hist) = 3
    /\ hist[1].height >= 1
    /\ hist[2].height = hist[1].height + 1
    /\ hist[3].height = hist[2].height + 1
    /\ \A i \in 1..3 : hist[i].roughly_synced

\* C3: after three block-connected events with consecutive heights that all
\* carry roughly_synced = true, RoughlySynced() is true, whatever the ring
\* held before the first of them.
C3_ThreeSyncedBlocksSync ==
    ThreeSyncedBlocks => RoughlySynced(top_blocks)

\* The slots before the first empty one hold consecutive heights.
FilledPrefixInOrder(tb) ==
    \A i \in 2..(FirstEmpty(tb) - 1) : tb[i].height = tb[i - 1].height + 1

\* The insertion rule as stated: append after the last non-empty slot when the
\* new height is one more than its height (rotating a full ring), reset to
\* [new, empty, empty] in every other case.
InsertionRule(tb, new) ==
    LET e == FirstEmpty(tb) IN
    IF e > 1 /\ FilledPrefixInOrder(tb) /\ new.height = tb[e - 1].height + 1
    THEN IF e > 3 THEN <<tb[2], tb[3], new>> ELSE [tb EXCEPT ![e] = new]
    ELSE <<new, EmptySlot, EmptySlot>>

\* C4: every block-connected event changes the ring as the insertion rule says.
C4_InsertionRuleFollowed ==
    [][top_blocks' = InsertionRule(top_blocks, hist'[Len(hist')])]_<<top_blocks, hist>>

\* C5: a call made with a valid target and a loaded mempool while
\* RoughlySynced() is false returns an empty result with the not-in-sync
\* message, takes no mempool snapshot and does not call cache.get; and no step
\* taken while RoughlySynced() is false changes the cache.
C5_NotSyncedRefuses ==
    [][ /\ (call' # Nullopt /\ call'[1].confTarget <= MAX_CONF_TARGET
             /\ call'[1].loaded /\ ~call'[1].synced)
            => /\ IsEmptyResult(call'[1].result)
               /\ call'[1].err_message = ErrNotSynced
               /\ ~call'[1].snapshot
               /\ ~call'[1].cache_get
        /\ ~RoughlySynced(top_blocks)
            => estimates' = estimates /\ last_updated' = last_updated
      ]_vars

\* A call without force was refused for not being in sync although the cache
\* holds a fresh estimate for its target.
C5_Witness ==
    /\ call # Nullopt
    /\ call[1].confTarget = 1 /\ ~call[1].force /\ call[1].loaded /\ ~call[1].synced
    /\ call[1].err_message = ErrNotSynced
    /\ ~RoughlySynced(top_blocks)
    /\ get(1) # Nullopt /\ ~IsEmptyResult(get(1)[1])

\* C6: after update(m) and while now - last_updated <= cache_life, get(k) is
\* m[k] for the keys of m and nullopt for every other key.
C6_FreshCacheReturnsLastMap ==
    (last_m # Nullopt /\ now - updated_at <= cache_life) =>
        \A k \in 0..(MaxKey + 1) :
            get(k) = IF k \in DOMAIN last_m[1] THEN Some(last_m[1][k]) ELSE Nullopt

\* Exactly cache_life after an update whose map has a key and lacks a key that
\* an earlier map had.
C6_Witness ==
    /\ last_m # Nullopt
    /\ now - updated_at = cache_life
    /\ DOMAIN last_m[1] # {}
    /\ ever_keys \ DOMAIN last_m[1] # {}

\* C7: once more than cache_life has passed since the last update, and in a
\* cache that was never updated, get(k) is nullopt for every key.
C7_StaleCacheReturnsNothing ==
    (last_m = Nullopt \/ now - updated_at > cache_life) =>
        \A k \in 0..(MaxKey + 1) : get(k) = Nullopt

\* One second past the life of a non-empty map.
C7_Witness ==
    /\ last_m # Nullopt
    /\ DOMAIN last_m[1] # {}
    /\ now - updated_at = cache_life + 1

\* C8 as stated: for every input list p5 <= p25 <= p50 <= p75.
C8_PercentilesOrdered ==
    percentiles # Nullopt =>
        /\ percentiles[1].p5 <= percentiles[1].p25
        /\ percentiles[1].p25 <= percentiles[1].p50
        /\ percentiles[1].p50 <= percentiles[1].p75

\* The fee rates do not decrease along the sweep.
NonDecreasing(entries) ==
    \A i \in 1..(Len(entries) - 1) : entries[i].fee_rate <= entries[i + 1].fee_rate

\* C8 as amended: for every input list whose fee rates do not decrease along
\* the sweep, p5 <= p25 <= p50, and p50 <= p75 unless p75 is zero.
C8_PercentilesOrderedForSortedInput ==
    (percentiles # Nullopt /\ NonDecreasing(fee_stats)) =>
        /\ percentiles[1].p5 <= percentiles[1].p25
        /\ percentiles[1].p25 <= percentiles[1].p50
        /\ percentiles[1].p75 # 0 => percentiles[1].p50 <= percentiles[1].p75

\* A sorted input that gave four non-zero percentiles, not all equal.
C8_Witness ==
    /\ percentiles # Nullopt
    /\ NonDecreasing(fee_stats)
    /\ percentiles[1].p5 # 0
    /\ percentiles[1].p5 < percentiles[1].p75

\* The weight of the first i entries: the sum of vsize x 4.
RECURSIVE CumWeight(_, _)
CumWeight(entries, i) ==
    IF i = 0 THEN 0
    ELSE CumWeight(entries, i - 1) + entries[i].vsize * WITNESS_SCALE_FACTOR

TotalWeight(entries) == CumWeight(entries, Len(entries))

\* C9: when the total weight of the list is below DEFAULT_BLOCK_MAX_WEIGHT / 2
\* the result is empty.
C9_InsufficientWeightIsEmpty ==
    (percentiles # Nullopt /\ TotalWeight(fee_stats) < DEFAULT_BLOCK_MAX_WEIGHT \div 2) =>
        percentiles[1] = EmptyResult

\* The 5% and 25% thresholds were crossed by entries of non-zero fee rate, the
\* total stayed below half a block and the result is empty.
C9_Witness ==
    /\ percentiles # Nullopt
    /\ TotalWeight(fee_stats) >= p25_Size
    /\ TotalWeight(fee_stats) < DEFAULT_BLOCK_MAX_WEIGHT \div 2
    /\ \A i \in 1..Len(fee_stats) : fee_stats[i].fee_rate # 0
    /\ percentiles[1] = EmptyResult

\* The fee rate of the first entry at which the cumulative weight reaches the
\* threshold, or 0 when no entry reaches it.
FirstCrossingRate(entries, threshold) ==
    LET reached == {i \in 1..Len(entries) : CumWeight(entries, i) >= threshold}
    IN  IF reached = {} THEN 0
        ELSE entries[CHOOSE i \in reached : \A j \in reached : i <= j].fee_rate

\* C10: in a result that is not discarded for insufficient weight, each
\* percentile is the fee rate of the first entry at which the cumulative
\* weight reaches its threshold, also when that fee rate is 0.
C10_FirstCrossingRecorded ==
    (percentiles # Nullopt /\ TotalWeight(fee_stats) >= DEFAULT_BLOCK_MAX_WEIGHT \div 2) =>
        /\ percentiles[1].p5 = FirstCrossingRate(fee_stats, p5_Size)
        /\ percentiles[1].p25 = FirstCrossingRate(fee_stats, p25_Size)
        /\ percentiles[1].p50 = FirstCrossingRate(fee_stats, p50_Size)
        /\ percentiles[1].p75 = FirstCrossingRate(fee_stats, p75_Size)

\* The positions of the forecasters asked whose answer was empty.
RECURSIVE FailedErrors(_, _)
FailedErrors(a, i) ==
    IF i > Len(a.asked) THEN <<>>
    ELSE LET r == a.asked[i][a.targetBlocks]
         IN  IF IsEmptyForecast(r)
             THEN <<r.err_message>> \o FailedErrors(a, i + 1)
             ELSE FailedErrors(a, i + 1)

\* C13: the error list returned by GetFeeEstimateFromForecasters holds one error
\* string for each forecaster whose result was empty, in registration order;
\* when no forecaster succeeded the result is empty and the list holds one
\* error string per registered forecaster.
C13_OneErrorPerFailedForecaster ==
    answer # Nullopt =>
        LET a == answer[1]
            failed == FailedErrors(a, 1)
        IN  /\ \A i \in 1..Len(failed) : failed[i] # None
            /\ a.err_messages = failed
            /\ NonEmptyAnswers(a) = {} =>
                    /\ IsEmptyForecast(a.forecast)
                    /\ Len(a.err_messages) = Len(a.asked)

(***************************************************************************)
(* The forecasters: MemPoolForecaster, MemPoolLast10MinForecaster,         *)
(* LastBlockForecaster, BlockForecaster.                                   *)
(***************************************************************************)
\* MaxTarget() of the four forecasters.
MEMPOOL_FORECAST_MAX_TARGET == 1
MEMPOOL_LAST_10_MIN_FORECAST_MAX_TARGET == 2
LAST_BLOCK_FORECAST_MAX_TARGET == 2
BLOCK_FORECAST_MAX_TARGET == 2
\* The length of BlockForecaster's queue.
MAX_NUMBER_OF_BLOCKS == 3

\* One step of the percentile engine of policy/fees_util: a percentile is the
\* fee rate of the entry that takes the cumulative weight from below its
\* threshold to it or beyond.
CrossRecord(res, weight_before, weight_after, entry) ==
    LET Cross(threshold, old) ==
            IF weight_before < threshold /\ weight_after >= threshold
            THEN entry.fee_rate ELSE old
    IN  Result(Cross(p5_Size, res.p5), Cross(p25_Size, res.p25),
               Cross(p50_Size, res.p50), Cross(p75_Size, res.p75))

RECURSIVE CrossSweep(_, _, _, _)
CrossSweep(entries, i, total_weight, res) ==
    IF i > Len(entries) THEN [total_weight |-> total_weight, res |-> res]
    ELSE LET tw == total_weight + entries[i].vsize * WITNESS_SCALE_FACTOR
         IN  CrossSweep(entries, i + 1, tw, CrossRecord(res, total_weight, tw, entries[i]))

\* BlockPercentiles CalculateBlockPercentiles(fee_rate_stats) of policy/fees_util:
\* empty percentiles when the total weight stays below half a block.
BlockPercentilesOf(entries) ==
    LET swept == CrossSweep(entries, 1, 0, EmptyResult)
    IN  IF swept.total_weight < p50_Size THEN EmptyResult ELSE swept.res

\* Sizes whose weights are a twentieth, a quarter and a half of a block.
SizeP5 == p5_Size \div WITNESS_SCALE_FACTOR
SizeP25 == p25_Size \div WITNESS_SCALE_FACTOR
SizeP50 == p50_Size \div WITNESS_SCALE_FACTOR

\* The (fee rate, vsize) lists a block or a mempool yields, in sweep order:
\* nothing; too light a sample; half a block (p75 stays 0); half a block of
\* zero fee rate under a quarter paying 1; and three samples with four
\* non-zero percentiles.
FeeRateSamples ==
    {<<>>,
     <<Entry(1, SizeP25)>>,
     <<Entry(1, SizeP50)>>,
     <<Entry(0, SizeP50), Entry(1, SizeP25)>>,
     <<Entry(1, SizeP50), Entry(1, SizeP25)>>,
     <<Entry(1, SizeP25), Entry(2, SizeP50)>>,
     <<Entry(2, SizeP25), Entry(2, SizeP50)>>}

\* The forecaster objects.
Subjects == {"MemPoolForecaster", "MemPoolLast10MinForecaster",
             "LastBlockForecaster", "BlockForecaster", "NTime"}

ErrZeroTarget == "Confirmation target must be greater than zero"
ErrAboveMaximum == "Confirmation target is above the maximum limit"
ErrMempoolNotLoaded == "Mempool not finished loading; can't get accurate feerate forecast"
ErrNoTransactions == "No transactions available in the mempool"
ErrNotEnoughTransactions == "Not enough transactions in the mempool to provide a feerate forecast"
ErrInsufficientBlockData == "Insufficient block data to perform an estimate"

\* The state of the four forecaster objects, as the observers keep it.
FcState == [blocks_percentile |-> blocks_percentile,
            lb_chain_tip_height |-> lb_chain_tip_height,
            blocks_percentiles |-> blocks_percentiles,
            bf_chain_tip_height |-> bf_chain_tip_height,
            mp_cache |-> mp_cache,
            load_tried |-> load_tried,
            now |-> now]

\* Observer of an EstimateFee call: the forecaster, the target, the result and
\* the state the call found.
FcCalled(forecaster, targetBlocks, result) ==
    Some([forecaster |-> forecaster, targetBlocks |-> targetBlocks,
          result |-> result, before |-> FcState])

\* The target checks with zero let through.
TargetCheck_ZeroAccepted(targetBlocks, max_target) ==
    IF targetBlocks > max_target THEN ErrAboveMaximum ELSE None

\* The two target checks every EstimateFee begins with: the error of the first
\* that fails, or None.
TargetCheck(targetBlocks, max_target) ==
    IF targetBlocks <= 0 THEN ErrZeroTarget
    ELSE IF targetBlocks > max_target THEN ErrAboveMaximum
    ELSE None

\* LastBlockForecaster() {}: blocks_percentile is default constructed,
\* chain_tip_height is left uninitialised.  BlockForecaster likewise.
InitFcVars ==
    /\ fc_subject \in Subjects
    /\ blocks_percentile = EmptyResult
    /\ blocks_percentiles = <<>>
    /\ lb_chain_tip_height \in
          IF fc_subject = "LastBlockForecaster" THEN 0..MaxHeight ELSE {0}
    /\ bf_chain_tip_height \in
          IF fc_subject = "BlockForecaster" THEN 0..MaxHeight ELSE {0}
    /\ mp_cache = Nullopt
    /\ fc_call = Nullopt
    /\ fc_event = Nullopt

\* Observer of a block-connected event: the height, the percentiles of the
\* block and the state the event found.
FcConnected(forecaster, nBlockHeight, block_percentiles) ==
    Some([forecaster |-> forecaster, nBlockHeight |-> nBlockHeight,
          percentiles |-> block_percentiles, before |-> FcState])

\* The percentiles of every block stored.
Stored_Always(previous, block_percentiles) == block_percentiles

\* if (percentiles.p75 != CFeeRate(0)) blocks_percentile = percentiles;
Stored(previous, block_percentiles) ==
    IF block_percentiles.p75 # 0 THEN block_percentiles ELSE previous

\* LastBlockForecaster::MempoolTransactionsRemovedForBlock
LastBlock_MempoolTransactionsRemovedForBlock(size_per_feerate, nBlockHeight) ==
    LET block_percentiles == BlockPercentilesOf(size_per_feerate) IN
    /\ lb_chain_tip_height' = nBlockHeight
    /\ blocks_percentile' = Stored(blocks_percentile, block_percentiles)
    /\ fc_event' = FcConnected("LastBlockForecaster", nBlockHeight, block_percentiles)
    /\ fc_call' = Nullopt
    /\ UNCHANGED <<blocks_percentiles, bf_chain_tip_height, mp_cache, fc_subject>>

\* The result LastBlockForecaster::EstimateFee returns.
LastBlock_Result(targetBlocks) ==
    LET early == TargetCheck(targetBlocks, LAST_BLOCK_FORECAST_MAX_TARGET) IN
    IF early # None THEN Forecast(0, 0, early)
    ELSE IF IsEmptyResult(blocks_percentile) THEN Forecast(0, 0, ErrInsufficientBlockData)
    ELSE Forecast(blocks_percentile.p25, blocks_percentile.p50, None)

\* LastBlockForecaster::EstimateFee
LastBlock_EstimateFee(targetBlocks) ==
    /\ fc_call' = FcCalled("LastBlockForecaster", targetBlocks, LastBlock_Result(targetBlocks))
    /\ fc_event' = Nullopt
    /\ UNCHANGED <<blocks_percentile, lb_chain_tip_height, blocks_percentiles,
                   bf_chain_tip_height, mp_cache, fc_subject>>

\* The push of BlockForecaster's handler without the pop that makes room.
Push_NoEviction(queue, block_percentiles) == Append(queue, block_percentiles)

\* if (size() == MAX_NUMBER_OF_BLOCKS) pop(); push(percentiles);
Push(queue, block_percentiles) ==
    Append(IF Len(queue) = MAX_NUMBER_OF_BLOCKS THEN Tail(queue) ELSE queue,
           block_percentiles)

\* BlockForecaster::MempoolTransactionsRemovedForBlock
BlockFc_MempoolTransactionsRemovedForBlock(size_per_feerate, nBlockHeight) ==
    LET block_percentiles == BlockPercentilesOf(size_per_feerate) IN
    /\ bf_chain_tip_height' = nBlockHeight
    /\ blocks_percentiles' = IF block_percentiles.p75 # 0
                              THEN Push(blocks_percentiles, block_percentiles)
                              ELSE blocks_percentiles
    /\ fc_event' = FcConnected("BlockForecaster", nBlockHeight, block_percentiles)
    /\ fc_call' = Nullopt
    /\ UNCHANGED <<blocks_percentile, lb_chain_tip_height, mp_cache, fc_subject>>

\* The while loop that sums the queued percentiles into percentiles_average.
RECURSIVE SumQueue(_, _)
SumQueue(queue, acc) ==
    IF queue = <<>> THEN acc
    ELSE SumQueue(Tail(queue),
                  Result(acc.p5 + Head(queue).p5, acc.p25 + Head(queue).p25,
                         acc.p50 + Head(queue).p50, acc.p75 + Head(queue).p75))

\* CFeeRate(sum.GetFeePerK() / MAX_NUMBER_OF_BLOCKS) for each percentile.
Average(sum) ==
    Result(sum.p5 \div MAX_NUMBER_OF_BLOCKS, sum.p25 \div MAX_NUMBER_OF_BLOCKS,
           sum.p50 \div MAX_NUMBER_OF_BLOCKS, sum.p75 \div MAX_NUMBER_OF_BLOCKS)

\* What a read of a destroyed BlockPercentiles can yield besides the value it
\* held.
IndeterminatePercentiles == {EmptyResult, Result(MaxRate, MaxRate, MaxRate, MaxRate)}

\* const auto& curr_percentile = blocks_percentiles_cp.front();
\* blocks_percentiles_cp.pop(); ... += curr_percentile.p5 ...
\* The reference is read after pop() has destroyed the element it refers to:
\* each read yields the value the element held or an indeterminate one.
FrontAfterPop(queue) ==
    {reads \in [1..Len(queue) -> {queue[i] : i \in 1..Len(queue)} \cup IndeterminatePercentiles] :
        \A i \in 1..Len(queue) : reads[i] \in {queue[i]} \cup IndeterminatePercentiles}

\* The results BlockForecaster::EstimateFee can return.
BlockFc_Results(targetBlocks) ==
    LET early == TargetCheck(targetBlocks, BLOCK_FORECAST_MAX_TARGET) IN
    IF early # None THEN {Forecast(0, 0, early)}
    ELSE IF Len(blocks_percentiles) < MAX_NUMBER_OF_BLOCKS
    THEN {Forecast(0, 0, ErrInsufficientBlockData)}
    ELSE {LET percentiles_average == Average(SumQueue(reads, EmptyResult))
          IN  Forecast(percentiles_average.p25, percentiles_average.p50, None) :
            reads \in FrontAfterPop(blocks_percentiles)}

\* BlockForecaster::EstimateFee
BlockFc_EstimateFee(targetBlocks) ==
    /\ \E result \in BlockFc_Results(targetBlocks) :
            fc_call' = FcCalled("BlockForecaster", targetBlocks, result)
    /\ fc_event' = Nullopt
    /\ UNCHANGED <<blocks_percentile, lb_chain_tip_height, blocks_percentiles,
                   bf_chain_tip_height, mp_cache, fc_subject>>

\* MemPoolForecaster's cache, of policy/forecasters/mempool.h: the percentiles
\* of the latest update while they are at most cache_life old.
MempoolCacheGet ==
    IF mp_cache # Nullopt /\ now - mp_cache[1].last_updated <= cache_life
    THEN Some(mp_cache[1].value) ELSE Nullopt

MempoolCacheUpdate(value) == Some([value |-> value, last_updated |-> now])

\* The same call with cache.update moved before the check of the percentiles.
MemPool_Outcome_UpdateFirst(targetBlocks, next_block_stats) ==
    LET early == TargetCheck(targetBlocks, MEMPOOL_FORECAST_MAX_TARGET)
        cached_estimate == MempoolCacheGet
        fee_rate_estimate_result == BlockPercentilesOf(next_block_stats)
        Return(result, cache, taken) ==
            [result |-> result, cache |-> cache, block_fee_stats |-> taken]
    IN  IF early # None THEN Return(Forecast(0, 0, early), mp_cache, Nullopt)
        ELSE IF ~load_tried
        THEN Return(Forecast(0, 0, ErrMempoolNotLoaded), mp_cache, Nullopt)
        ELSE IF cached_estimate # Nullopt
        THEN Return(Forecast(cached_estimate[1].p25, cached_estimate[1].p50, None),
                    mp_cache, Nullopt)
        ELSE IF next_block_stats = <<>>
        THEN Return(Forecast(0, 0, ErrNoTransactions), mp_cache, Some(next_block_stats))
        ELSE IF IsEmptyResult(fee_rate_estimate_result) \/ fee_rate_estimate_result.p75 = 0
        THEN Return(Forecast(0, 0, ErrNotEnoughTransactions),
                    MempoolCacheUpdate(fee_rate_estimate_result), Some(next_block_stats))
        ELSE Return(Forecast(fee_rate_estimate_result.p25, fee_rate_estimate_result.p50, None),
                    MempoolCacheUpdate(fee_rate_estimate_result), Some(next_block_stats))

\* MemPoolForecaster::EstimateFeeWithMemPool: the result, the cache it leaves
\* and the block_fee_stats it took (none when the call returns before line 48),
\* next_block_stats being what GetNextBlockFeeRateAndVsize would yield.
MemPool_Outcome(targetBlocks, next_block_stats) ==
    LET early == TargetCheck(targetBlocks, MEMPOOL_FORECAST_MAX_TARGET)
        cached_estimate == MempoolCacheGet
        fee_rate_estimate_result == BlockPercentilesOf(next_block_stats)
        Return(result, cache, taken) ==
            [result |-> result, cache |-> cache, block_fee_stats |-> taken]
    IN  IF early # None THEN Return(Forecast(0, 0, early), mp_cache, Nullopt)
        ELSE IF ~load_tried
        THEN Return(Forecast(0, 0, ErrMempoolNotLoaded), mp_cache, Nullopt)
        ELSE IF cached_estimate # Nullopt
        THEN Return(Forecast(cached_estimate[1].p25, cached_estimate[1].p50, None),
                    mp_cache, Nullopt)
        ELSE IF next_block_stats = <<>>
        THEN Return(Forecast(0, 0, ErrNoTransactions), mp_cache, Some(next_block_stats))
        ELSE IF IsEmptyResult(fee_rate_estimate_result) \/ fee_rate_estimate_result.p75 = 0
        THEN Return(Forecast(0, 0, ErrNotEnoughTransactions), mp_cache,
                    Some(next_block_stats))
        ELSE Return(Forecast(fee_rate_estimate_result.p25, fee_rate_estimate_result.p50, None),
                    MempoolCacheUpdate(fee_rate_estimate_result), Some(next_block_stats))

\* MemPoolForecaster::EstimateFee
MemPool_EstimateFee(targetBlocks, next_block_stats) ==
    LET out == MemPool_Outcome(targetBlocks, next_block_stats) IN
    /\ mp_cache' = out.cache
    /\ fc_call' = Some([forecaster |-> "MemPoolForecaster", targetBlocks |-> targetBlocks,
                        result |-> out.result, before |-> FcState,
                        block_fee_stats |-> out.block_fee_stats])
    /\ fc_event' = Nullopt
    /\ UNCHANGED <<blocks_percentile, lb_chain_tip_height, blocks_percentiles,
                   bf_chain_tip_height, fc_subject>>

\* Ten minutes, in seconds.
TenMinutes == 600

\* A linearized package with the arrival time of its transaction.
Package(rate, size, time) == [fee_rate |-> rate, vsize |-> size, time |-> time]

\* The sample with no entry counted twice.
TenMinStep_Once(package, time_minus_ten_mins, acc) ==
    [block_weight |-> acc.block_weight + package.vsize * WITNESS_SCALE_FACTOR,
     block_fee_stats |-> Append(acc.block_fee_stats, Entry(package.fee_rate, package.vsize)),
     processed |-> acc.processed + 1]

\* One iteration of the while loop past the weight check: the package is
\* counted, and counted once more when it was received within the last ten
\* minutes.
TenMinStep(package, time_minus_ten_mins, acc) ==
    LET tuple == Entry(package.fee_rate, package.vsize)
        weight == package.vsize * WITNESS_SCALE_FACTOR
    IN  IF package.time >= time_minus_ten_mins
        THEN [block_weight |-> acc.block_weight + weight + weight,
              block_fee_stats |-> acc.block_fee_stats \o <<tuple, tuple>>,
              processed |-> acc.processed + 1]
        ELSE [block_weight |-> acc.block_weight + weight,
              block_fee_stats |-> Append(acc.block_fee_stats, tuple),
              processed |-> acc.processed + 1]

\* The while loop of MemPoolLast10MinForecaster::EstimateFeeWithMemPool from
\* current_index on; processed counts the packages taken before the break.
RECURSIVE TenMinLoop(_, _, _, _)
TenMinLoop(linearizationResult, current_index, time_minus_ten_mins, acc) ==
    IF current_index > Len(linearizationResult) THEN acc
    ELSE LET package == linearizationResult[current_index] IN
         IF acc.block_weight + package.vsize > DEFAULT_BLOCK_MAX_WEIGHT THEN acc
         ELSE TenMinLoop(linearizationResult, current_index + 1, time_minus_ten_mins,
                         TenMinStep(package, time_minus_ten_mins, acc))

\* The sample, its weight and the number of packages taken.
TenMinSample(linearizationResult, time) ==
    TenMinLoop(linearizationResult, 1, time - TenMinutes,
               [block_weight |-> 0, block_fee_stats |-> <<>>, processed |-> 0])

\* The result MemPoolLast10MinForecaster::EstimateFeeWithMemPool returns.
Last10Min_Result(targetBlocks, linearizationResult) ==
    LET early == TargetCheck(targetBlocks, MEMPOOL_LAST_10_MIN_FORECAST_MAX_TARGET)
        fee_rate_estimate_result ==
            BlockPercentilesOf(TenMinSample(linearizationResult, get_time).block_fee_stats)
    IN  IF early # None THEN Forecast(0, 0, early)
        ELSE IF ~load_tried THEN Forecast(0, 0, ErrMempoolNotLoaded)
        ELSE IF IsEmptyResult(fee_rate_estimate_result) \/ fee_rate_estimate_result.p75 = 0
        THEN Forecast(0, 0, ErrNotEnoughTransactions)
        ELSE Forecast(fee_rate_estimate_result.p25, fee_rate_estimate_result.p50, None)

\* MemPoolLast10MinForecaster::EstimateFee
Last10Min_EstimateFee(targetBlocks, linearizationResult) ==
    /\ fc_call' = FcCalled("MemPoolLast10MinForecaster", targetBlocks,
                           Last10Min_Result(targetBlocks, linearizationResult))
    /\ fc_event' = Nullopt
    /\ UNCHANGED <<blocks_percentile, lb_chain_tip_height, blocks_percentiles,
                   bf_chain_tip_height, mp_cache, fc_subject>>

(***************************************************************************)
(* NTime: the grid of confirmed transactions and the estimates drawn from   *)
(* it.                                                                     *)
(***************************************************************************)
MAX_HOURS == 504
SECONDS_IN_HOUR == 3600

\* struct ConfirmedTx { m_receivedTime; m_confirmedTime; fee_rate; vsize; }
ConfirmedTx(received, confirmed, rate, size) ==
    [m_receivedTime |-> received, m_confirmedTime |-> confirmed,
     fee_rate |-> rate, vsize |-> size]

\* The grid std::vector<std::vector<std::vector<ConfirmedTx>>>: sizes[i + 1]
\* is tracking_stats[i].size(), and cells lists tracking_stats[i][j] for the
\* cells that hold transactions; every other cell is empty.
Grid(sizes, cells) == [sizes |-> sizes, cells |-> cells]

\* tracking_stats.size()
GridSize(stats) == Len(stats.sizes)

\* tracking_stats[i].size(), hours counted from 0.
RowSize(stats, i) == stats.sizes[i + 1]

\* tracking_stats[i][j]
StatsCell(stats, i, j) ==
    IF \E c \in stats.cells : c.i = i /\ c.j = j
    THEN (CHOOSE c \in stats.cells : c.i = i /\ c.j = j).txs
    ELSE <<>>

\* tracking_stats[i][j].emplace_back(tx)
CellAppend(stats, i, j, tx) ==
    Grid(stats.sizes,
         {c \in stats.cells : ~(c.i = i /\ c.j = j)}
            \cup {[i |-> i, j |-> j, txs |-> Append(StatsCell(stats, i, j), tx)]})

\* NTime::initStats: MAX_HOURS rows, row i resized to i + 1 empty cells.
initStats == Grid([i \in 1..MAX_HOURS |-> i], {})

\* ceil(static_cast<double>(a) / b)
Ceil(a, b) == -((-a) \div b)

\* The index with the max(0, ...) and the - 1 left out.
calculateHoursIndex_Unclamped(start, end) == Ceil(end - start, SECONDS_IN_HOUR)

\* The lambda of addTxToStats.
calculateHoursIndex(start, end) ==
    LET hours == Ceil(end - start, SECONDS_IN_HOUR) - 1
    IN  IF hours > 0 THEN hours ELSE 0

\* NTime::addTxToStats, as a function of the grid.
addTxToStats(stats, tx) ==
    LET interval == calculateHoursIndex(tx.m_receivedTime, tx.m_confirmedTime)
    IN  IF interval >= MAX_HOURS THEN stats
        ELSE CellAppend(stats, interval, interval, tx)

\* The size of a row moved with no cell appended to it.
ShiftedSize_Same(size) == size

\* temp_stats[i + 1] = tracking_stats[i]; temp_stats[i + 1].emplace_back({});
ShiftedSize(size) == size + 1

\* NTime::UpdateTrackingStats, as a function of the grid: rows 0..MAX_HOURS-2
\* move one hour up, row 0 is the one initStats made.
UpdateTrackingStats(stats) ==
    Grid([i \in 1..MAX_HOURS |->
            IF i = 1 THEN initStats.sizes[1] ELSE ShiftedSize(stats.sizes[i - 1])],
         {[i |-> c.i + 1, j |-> c.j, txs |-> c.txs] :
            c \in {d \in stats.cells : d.i < MAX_HOURS - 1}})

\* The for loop of NTime::MempoolTransactionsRemovedForBlock over the
\* linearized transactions, from position k on.
RECURSIVE AddAll(_, _, _)
AddAll(stats, txs, k) ==
    IF k > Len(txs) THEN stats ELSE AddAll(addTxToStats(stats, txs[k]), txs, k + 1)

\* The transactions of one cell that pass the time filter of GetTxsWithinTime.
RECURSIVE CellWithin(_, _, _, _)
CellWithin(txs, k, start_timestamp, end_timestamp) ==
    IF k > Len(txs) THEN <<>>
    ELSE (IF txs[k].m_receivedTime >= start_timestamp /\ txs[k].m_confirmedTime <= end_timestamp
          THEN <<txs[k]>> ELSE <<>>)
         \o CellWithin(txs, k + 1, start_timestamp, end_timestamp)

\* The inner loop over the confirmation hours j..max_conf_index of row i; a
\* cell that holds no transaction adds nothing, so the loop is taken from one
\* cell that holds some to the next.
RECURSIVE RowWithin(_, _, _, _, _, _)
RowWithin(stats, i, j, max_conf_index, start_timestamp, end_timestamp) ==
    LET held == {c.j : c \in {d \in stats.cells : d.i = i}} \cap (j..max_conf_index) IN
    IF held = {} THEN <<>>
    ELSE LET next_j == CHOOSE x \in held : \A y \in held : x <= y
         IN  (IF RowSize(stats, i) < next_j + 1 THEN <<>>
              ELSE CellWithin(StatsCell(stats, i, next_j), 1, start_timestamp, end_timestamp))
             \o RowWithin(stats, i, next_j + 1, max_conf_index, start_timestamp, end_timestamp)

\* The outer loop over the seen hours i down to end_hr, taken from one row
\* that holds a transaction to the next.
RECURSIVE HoursWithin(_, _, _, _, _, _, _)
HoursWithin(stats, i, start_hr, end_hr, max_conf_index, start_timestamp, end_timestamp) ==
    LET held == {c.i : c \in stats.cells} \cap (end_hr..i) IN
    IF held = {} \/ GridSize(stats) <= start_hr THEN <<>>
    ELSE LET next_i == CHOOSE x \in held : \A y \in held : x >= y
         IN  RowWithin(stats, next_i, 0, max_conf_index, start_timestamp, end_timestamp)
             \o HoursWithin(stats, next_i - 1, start_hr, end_hr, max_conf_index,
                            start_timestamp, end_timestamp)

\* std::sort by increasing fee rate: txs, with tx inserted before the first
\* entry of a higher fee rate.
RECURSIVE InsertByRate(_, _)
InsertByRate(txs, tx) ==
    IF txs = <<>> THEN <<tx>>
    ELSE IF tx.fee_rate < Head(txs).fee_rate THEN <<tx>> \o txs
    ELSE <<Head(txs)>> \o InsertByRate(Tail(txs), tx)

RECURSIVE SortByRate(_)
SortByRate(txs) ==
    IF txs = <<>> THEN <<>>
    ELSE InsertByRate(SortByRate(SubSeq(txs, 1, Len(txs) - 1)), txs[Len(txs)])

\* NTime::GetTxsWithinTime: the (fee rate, vsize) pairs of the transactions
\* seen after start_hr hours ago and confirmed before end_hr hours ago.
\* static_cast<size_t>(start_hr) of a negative start_hr exceeds every size.
GetTxsWithinTime(stats, current_time, start_hr, end_hr) ==
    LET start_timestamp == current_time - start_hr * SECONDS_IN_HOUR
        end_timestamp == current_time - end_hr * SECONDS_IN_HOUR
        max_conf_index == (start_hr - end_hr) - 1
        found == IF start_hr < 0 THEN <<>>
                 ELSE HoursWithin(stats, start_hr, start_hr, end_hr, max_conf_index,
                                  start_timestamp, end_timestamp)
        sorted == SortByRate(found)
    IN  [k \in 1..Len(sorted) |-> Entry(sorted[k].fee_rate, sorted[k].vsize)]

\* NTime::GetWindowEstimate
GetWindowEstimate(stats, current_time, hours) ==
    BlockPercentilesOf(GetTxsWithinTime(stats, current_time, hours, 0))

\* int start_hr = ceil(static_cast<double>(hours) / 24) * 24
HistoricalStart(hours) == Ceil(hours, 24) * 24

\* NTime::GetHistoricalEstimate
GetHistoricalEstimate(stats, current_time, hours) ==
    LET start_hr == HistoricalStart(hours)
        end_hr == start_hr - hours
    IN  BlockPercentilesOf(GetTxsWithinTime(stats, current_time, start_hr, end_hr))

ErrNTimeAboveMaximum == "Confirmation target is above maximum limit of MAX_HOURS"
ErrNoWindowEstimate == "Not enough tracked data to provide window estimate"
ErrNoHistoricalEstimate == "Not enough tracked data to provide historical estimate"

\* The estimate with the higher 75th percentile preferred.
Choose_HigherP75(window_percentiles, historical_percentiles) ==
    IF window_percentiles.p75 > historical_percentiles.p75
    THEN window_percentiles ELSE historical_percentiles

\* if (window_percentiles.p75 < historical_percentiles.p75) window, else historical
Choose(window_percentiles, historical_percentiles) ==
    IF window_percentiles.p75 < historical_percentiles.p75
    THEN window_percentiles ELSE historical_percentiles

\* if (targetHours > MAX_HOURS) return the error
NTimeTargetCheck(targetHours) ==
    IF targetHours > MAX_HOURS THEN ErrNTimeAboveMaximum ELSE None

\* The result NTime::EstimateFee returns.
NTime_Result(stats, current_time, targetHours) ==
    LET early == NTimeTargetCheck(targetHours)
        window_percentiles == GetWindowEstimate(stats, current_time, targetHours)
        historical_percentiles == GetHistoricalEstimate(stats, current_time, targetHours)
        chosen == Choose(window_percentiles, historical_percentiles)
    IN  IF early # None THEN Forecast(0, 0, early)
        ELSE IF IsEmptyResult(window_percentiles) THEN Forecast(0, 0, ErrNoWindowEstimate)
        ELSE IF IsEmptyResult(historical_percentiles)
        THEN Forecast(0, 0, ErrNoHistoricalEstimate)
        ELSE Forecast(chosen.p25, chosen.p50, None)

(***************************************************************************)
(* Specifications of the forecasters.                                      *)
(***************************************************************************)
\* At most MaxTracked transactions are tracked by the grid at a time.
MaxTracked == 2
\* UpdateTrackingStats runs at most MaxUpdates times.
MaxUpdates == 2

\* GetTime() when the node starts: late enough for every arrival time the
\* events carry to be positive.
StartTime == (MAX_HOURS + 2) * SECONDS_IN_HOUR

\* Seconds between the arrival of a transaction and the block that confirms
\* it: around each change of the hour index and around the end of the grid.
Ages == {-1, SECONDS_IN_HOUR, SECONDS_IN_HOUR + 1,
         MAX_HOURS * SECONDS_IN_HOUR, MAX_HOURS * SECONDS_IN_HOUR + 1}

\* The transactions a block removes from the mempool, with their mining
\* score and size, in linearized order.
RemovedTxs == [age : Ages, fee_rate : {1}, vsize : {SizeP50}]
RemovedLists == {<<>>} \cup {<<a>> : a \in RemovedTxs} \cup {<<a, a>> : a \in RemovedTxs}

\* The number of transactions the grid holds.
RECURSIVE TrackedCells(_)
TrackedCells(cells) ==
    IF cells = {} THEN 0
    ELSE LET c == CHOOSE c \in cells : TRUE IN Len(c.txs) + TrackedCells(cells \ {c})

TrackedCount(stats) == TrackedCells(stats.cells)

\* NTime(): tracking_stats{initStats()}
InitNTimeVars ==
    /\ tracking_stats = IF fc_subject = "NTime" THEN initStats ELSE <<>>
    /\ get_time = StartTime
    /\ nt_call = Nullopt
    /\ nt_updates = 0

\* One forecaster object at a time, from its construction on.
InitFc == IdleGate /\ InitCacheVars /\ InitEstVars /\ IdlePct /\ InitAggVars
          /\ InitFcVars /\ InitNTimeVars /\ IdleTenMin /\ IdleUnits

\* Everything but the state of the forecaster objects and the clocks.
fc_rest == <<gate_vars, estimates, last_updated, last_m, updated_at, ever_keys, call,
             pct_vars, agg_vars, tenmin_vars, unit_vars>>

FcLoaded ==
    /\ fc_subject \in {"MemPoolForecaster", "MemPoolLast10MinForecaster"}
    /\ MempoolLoaded
    /\ UNCHANGED <<fc_vars, ntime_vars, now, fc_rest>>

FcTick ==
    /\ fc_subject = "MemPoolForecaster"
    /\ \E d \in {cache_life, cache_life + 1} : Tick(d)
    /\ UNCHANGED <<fc_vars, ntime_vars, load_tried, gate_vars, call, pct_vars, agg_vars,
                   tenmin_vars, unit_vars>>

MemPoolEstimate ==
    /\ fc_subject = "MemPoolForecaster"
    /\ \E targetBlocks \in 0..(MEMPOOL_FORECAST_MAX_TARGET + 1),
          next_block_stats \in FeeRateSamples :
            MemPool_EstimateFee(targetBlocks, next_block_stats)
    /\ UNCHANGED <<ntime_vars, now, load_tried, fc_rest>>

\* The linearizations of the mempool: a sample whose transactions all arrived
\* a second before the last ten minutes began, or all as they began.
Linearizations ==
    {[k \in 1..Len(sample) |-> Package(sample[k].fee_rate, sample[k].vsize, get_time - late)] :
        sample \in FeeRateSamples, late \in {TenMinutes, TenMinutes + 1}}

Last10MinEstimate ==
    /\ fc_subject = "MemPoolLast10MinForecaster"
    /\ \E targetBlocks \in 0..(MEMPOOL_LAST_10_MIN_FORECAST_MAX_TARGET + 1),
          linearizationResult \in Linearizations :
            Last10Min_EstimateFee(targetBlocks, linearizationResult)
    /\ UNCHANGED <<ntime_vars, now, load_tried, fc_rest>>

LastBlockConnected ==
    /\ fc_subject = "LastBlockForecaster"
    /\ \E size_per_feerate \in FeeRateSamples, nBlockHeight \in 1..MaxHeight :
            LastBlock_MempoolTransactionsRemovedForBlock(size_per_feerate, nBlockHeight)
    /\ UNCHANGED <<ntime_vars, now, load_tried, fc_rest>>

LastBlockEstimate ==
    /\ fc_subject = "LastBlockForecaster"
    /\ \E targetBlocks \in 0..(LAST_BLOCK_FORECAST_MAX_TARGET + 1) :
            LastBlock_EstimateFee(targetBlocks)
    /\ UNCHANGED <<ntime_vars, now, load_tried, fc_rest>>

BlockFcConnected ==
    /\ fc_subject = "BlockForecaster"
    /\ \E size_per_feerate \in FeeRateSamples, nBlockHeight \in 1..MaxHeight :
            BlockFc_MempoolTransactionsRemovedForBlock(size_per_feerate, nBlockHeight)
    /\ UNCHANGED <<ntime_vars, now, load_tried, fc_rest>>

BlockFcEstimate ==
    /\ fc_subject = "BlockForecaster"
    /\ \E targetBlocks \in 0..(BLOCK_FORECAST_MAX_TARGET + 1) :
            BlockFc_EstimateFee(targetBlocks)
    /\ UNCHANGED <<ntime_vars, now, load_tried, fc_rest>>

\* NTime::MempoolTransactionsRemovedForBlock: every removed transaction is
\* added with the current time as its confirmation time.
NTimeConnected ==
    /\ fc_subject = "NTime"
    /\ \E removed \in RemovedLists :
        LET txs == [k \in 1..Len(removed) |->
                        ConfirmedTx(get_time - removed[k].age, get_time,
                                    removed[k].fee_rate, removed[k].vsize)]
        IN  /\ TrackedCount(tracking_stats) + Len(txs) <= MaxTracked
            /\ tracking_stats' = AddAll(tracking_stats, txs, 1)
            /\ nt_call' = Some([op |-> "MempoolTransactionsRemovedForBlock", txs |-> txs])
    /\ UNCHANGED <<get_time, nt_updates, fc_vars, now, load_tried, fc_rest>>

\* The scheduler runs UpdateTrackingStats, every STATS_UPDATE_INTERVAL: an
\* hour after the previous run.
NTimeUpdate ==
    /\ fc_subject = "NTime"
    /\ nt_updates < MaxUpdates
    /\ tracking_stats' = UpdateTrackingStats(tracking_stats)
    /\ get_time' = get_time + SECONDS_IN_HOUR
    /\ nt_updates' = nt_updates + 1
    /\ nt_call' = Some([op |-> "UpdateTrackingStats"])
    /\ UNCHANGED <<fc_vars, now, load_tried, fc_rest>>

\* The targets NTime is asked for.
TargetHours == {-1, 1, 24, MAX_HOURS, MAX_HOURS + 1, MAX_HOURS + 2}

NTimeEstimate ==
    /\ fc_subject = "NTime"
    /\ \E targetHours \in TargetHours :
            nt_call' = Some([op |-> "EstimateFee", targetHours |-> targetHours,
                             result |-> NTime_Result(tracking_stats, get_time, targetHours)])
    /\ UNCHANGED <<tracking_stats, get_time, nt_updates, fc_vars, now, load_tried, fc_rest>>

NextFc == FcLoaded \/ FcTick \/ MemPoolEstimate \/ Last10MinEstimate
          \/ LastBlockConnected \/ LastBlockEstimate \/ BlockFcConnected \/ BlockFcEstimate
          \/ NTimeConnected \/ NTimeUpdate \/ NTimeEstimate

SpecFc == InitFc /\ [][NextFc]_vars

(***************************************************************************)
(* Properties of the forecasters.                                          *)
(***************************************************************************)
\* MaxTarget() of a forecaster.
MaxTargetOf(forecaster) ==
    CASE forecaster = "MemPoolForecaster" -> MEMPOOL_FORECAST_MAX_TARGET
      [] forecaster = "MemPoolLast10MinForecaster" -> MEMPOOL_LAST_10_MIN_FORECAST_MAX_TARGET
      [] forecaster = "LastBlockForecaster" -> LAST_BLOCK_FORECAST_MAX_TARGET
      [] forecaster = "BlockForecaster" -> BLOCK_FORECAST_MAX_TARGET

\* The state an EstimateFee call of the four forecasters must not touch.
ForecasterState == <<blocks_percentile, lb_chain_tip_height, blocks_percentiles,
                     bf_chain_tip_height, mp_cache>>

\* A step that ends with a rejected target on record.
RejectedTargetStep ==
    /\ (/\ fc_call' # Nullopt
        /\ \/ fc_call'[1].targetBlocks = 0
           \/ fc_call'[1].targetBlocks > MaxTargetOf(fc_call'[1].forecaster))
        => /\ IsEmptyForecast(fc_call'[1].result)
           /\ fc_call'[1].result.err_message # None
           /\ ForecasterState' = ForecasterState
    /\ (/\ nt_call' # Nullopt
        /\ nt_call'[1].op = "EstimateFee"
        /\ nt_call'[1].targetHours > MAX_HOURS)
        => /\ IsEmptyForecast(nt_call'[1].result)
           /\ nt_call'[1].result.err_message # None
           /\ tracking_stats' = tracking_stats

\* C11: EstimateFee of MemPoolForecaster, MemPoolLast10MinForecaster,
\* LastBlockForecaster and BlockForecaster with a target of 0 or above
\* MaxTarget() returns an empty result with an error string, whatever the
\* state, and leaves the cache, the stored percentiles, the queue and the tip
\* height as they were; NTime::EstimateFee does so for every target above
\* MAX_HOURS.
C11_OutOfRangeTargetRejected == [][RejectedTargetStep]_vars

\* A target of 0 was rejected by a LastBlockForecaster that holds percentiles.
C11_Witness ==
    /\ fc_call # Nullopt
    /\ fc_call[1].forecaster = "LastBlockForecaster"
    /\ fc_call[1].targetBlocks = 0
    /\ ~IsEmptyResult(blocks_percentile)
    /\ IsEmptyForecast(fc_call[1].result)

\* C12: every result a forecaster returns is empty with an error, or holds
\* fee rates and no error.
C12_EmptyResultCarriesError ==
    /\ fc_call # Nullopt =>
            (IsEmptyForecast(fc_call[1].result) <=> fc_call[1].result.err_message # None)
    /\ (nt_call # Nullopt /\ nt_call[1].op = "EstimateFee") =>
            (IsEmptyForecast(nt_call[1].result) <=> nt_call[1].result.err_message # None)

\* C14 as claimed: the stored percentiles are the new block's whenever these
\* are not empty.
C14_StoredWhenNotEmpty ==
    (fc_event # Nullopt /\ fc_event[1].forecaster = "LastBlockForecaster") =>
        blocks_percentile = IF ~IsEmptyResult(fc_event[1].percentiles)
                            THEN fc_event[1].percentiles
                            ELSE fc_event[1].before.blocks_percentile

\* C14: after a block-connected event LastBlockForecaster holds the
\* percentiles of the new block when their 75th percentile is not zero, and
\* the value it held before otherwise; EstimateFee with a valid target returns
\* the 25th and 50th of the stored percentiles as low and high, or the
\* insufficient-data error while nothing is stored.
C14_StoredWhenP75NotZero ==
    /\ (fc_event # Nullopt /\ fc_event[1].forecaster = "LastBlockForecaster") =>
            blocks_percentile = IF fc_event[1].percentiles.p75 # 0
                                THEN fc_event[1].percentiles
                                ELSE fc_event[1].before.blocks_percentile
    /\ (/\ fc_call # Nullopt
        /\ fc_call[1].forecaster = "LastBlockForecaster"
        /\ fc_call[1].targetBlocks \in 1..LAST_BLOCK_FORECAST_MAX_TARGET) =>
            /\ fc_call[1].before.blocks_percentile = blocks_percentile
            /\ fc_call[1].result =
                    IF IsEmptyResult(blocks_percentile)
                    THEN Forecast(0, 0, ErrInsufficientBlockData)
                    ELSE Forecast(blocks_percentile.p25, blocks_percentile.p50, None)

\* A block whose percentiles are not empty, with a 75th percentile of zero, was
\* connected while percentiles were stored.
C14_Witness ==
    /\ fc_event # Nullopt
    /\ fc_event[1].forecaster = "LastBlockForecaster"
    /\ ~IsEmptyResult(fc_event[1].percentiles)
    /\ fc_event[1].percentiles.p75 = 0
    /\ ~IsEmptyResult(fc_event[1].before.blocks_percentile)

\* The queue after the percentiles p arrive at the queue q: p behind the
\* entries of q, without its oldest when q was full.
Arrived(q, p) ==
    IF Len(q) = MAX_NUMBER_OF_BLOCKS
    THEN [k \in 1..MAX_NUMBER_OF_BLOCKS |-> IF k < MAX_NUMBER_OF_BLOCKS THEN q[k + 1] ELSE p]
    ELSE [k \in 1..(Len(q) + 1) |-> IF k <= Len(q) THEN q[k] ELSE p]

\* C15 as claimed: the percentiles of every connected block are pushed.
C15_EveryBlockPushed ==
    /\ Len(blocks_percentiles) <= MAX_NUMBER_OF_BLOCKS
    /\ (fc_event # Nullopt /\ fc_event[1].forecaster = "BlockForecaster") =>
            blocks_percentiles = Arrived(fc_event[1].before.blocks_percentiles,
                                         fc_event[1].percentiles)

\* C15: BlockForecaster's queue never holds more than MAX_NUMBER_OF_BLOCKS
\* entries; a block-connected event pushes the percentiles of the block when
\* their 75th percentile is not zero and leaves the queue alone otherwise; a
\* push onto a full queue evicts exactly the oldest entry and the others keep
\* their order of arrival.
C15_QueueBoundedOldestEvicted ==
    /\ Len(blocks_percentiles) <= MAX_NUMBER_OF_BLOCKS
    /\ (fc_event # Nullopt /\ fc_event[1].forecaster = "BlockForecaster") =>
            blocks_percentiles =
                IF fc_event[1].percentiles.p75 # 0
                THEN Arrived(fc_event[1].before.blocks_percentiles, fc_event[1].percentiles)
                ELSE fc_event[1].before.blocks_percentiles

\* Percentiles were pushed onto a full queue.
C15_Witness ==
    /\ fc_event # Nullopt
    /\ fc_event[1].forecaster = "BlockForecaster"
    /\ Len(fc_event[1].before.blocks_percentiles) = MAX_NUMBER_OF_BLOCKS
    /\ fc_event[1].percentiles.p75 # 0
    /\ fc_event[1].percentiles # fc_event[1].before.blocks_percentiles[1]

\* The sum of one percentile over the queue.
RECURSIVE SumOf(_, _)
SumOf(q, field) == IF q = <<>> THEN 0 ELSE Head(q)[field] + SumOf(Tail(q), field)

\* C16: BlockForecaster::EstimateFee with a valid target returns the
\* insufficient-data error while the queue holds fewer than
\* MAX_NUMBER_OF_BLOCKS entries, and otherwise the sums of the queued 25th and
\* 50th percentiles divided by MAX_NUMBER_OF_BLOCKS as low and high; the queue
\* is left as it was.
C16_MeanOfQueueReturned ==
    (/\ fc_call # Nullopt
     /\ fc_call[1].forecaster = "BlockForecaster"
     /\ fc_call[1].targetBlocks \in 1..BLOCK_FORECAST_MAX_TARGET) =>
        /\ fc_call[1].before.blocks_percentiles = blocks_percentiles
        /\ fc_call[1].result =
                IF Len(blocks_percentiles) < MAX_NUMBER_OF_BLOCKS
                THEN Forecast(0, 0, ErrInsufficientBlockData)
                ELSE Forecast(SumOf(blocks_percentiles, "p25") \div MAX_NUMBER_OF_BLOCKS,
                              SumOf(blocks_percentiles, "p50") \div MAX_NUMBER_OF_BLOCKS, None)

(***************************************************************************)
(* The sample of MemPoolLast10MinForecaster over every bounded              *)
(* linearization.                                                          *)
(***************************************************************************)
\* A linearization holds up to MaxPackages packages.
MaxPackages == 3

\* Packages of two fee rates and two sizes that arrived a second before the
\* last ten minutes began, as they began, or a second later.
Packages ==
    {Package(rate, size, StartTime - TenMinutes + d) :
        rate \in 1..2, size \in {SizeP25, SizeP50}, d \in {-1, 0, 1}}

PackageLists == UNION {[1..n -> Packages] : n \in 0..MaxPackages}

InitTenMin == IdleGate /\ InitCacheVars /\ InitEstVars /\ IdlePct /\ InitAggVars
              /\ IdleFc
              /\ tracking_stats = <<>> /\ get_time = StartTime
              /\ nt_call = Nullopt /\ nt_updates = 0
              /\ linearized \in PackageLists
              /\ block_fee_stats = Nullopt
              /\ IdleUnits

\* The loop of EstimateFeeWithMemPool runs over the linearization.
BuildSample ==
    /\ block_fee_stats = Nullopt
    /\ block_fee_stats' = Some(TenMinSample(linearized, get_time))
    /\ UNCHANGED <<linearized, gate_vars, cache_vars, est_vars, pct_vars, agg_vars,
                   fc_vars, ntime_vars, unit_vars>>

NextTenMin == BuildSample

SpecTenMin == InitTenMin /\ [][NextTenMin]_vars

\* How often package k of the linearization is to be counted.
Copies(k) == IF linearized[k].time >= get_time - TenMinutes THEN 2 ELSE 1

\* The number of sample entries due to the packages before package k.
RECURSIVE CopiesBefore(_)
CopiesBefore(k) == IF k <= 1 THEN 0 ELSE CopiesBefore(k - 1) + Copies(k - 1)

\* The weight due to the packages before package k.
RECURSIVE WeightBefore(_)
WeightBefore(k) ==
    IF k <= 1 THEN 0
    ELSE WeightBefore(k - 1)
         + Copies(k - 1) * linearized[k - 1].vsize * WITNESS_SCALE_FACTOR

HourIndex(tx) ==
    LET waited == tx.m_confirmedTime - tx.m_receivedTime IN
    IF waited <= SECONDS_IN_HOUR THEN 0
    ELSE CHOOSE k \in 1..(MAX_HOURS + 1) :
            k * SECONDS_IN_HOUR < waited /\ waited <= (k + 1) * SECONDS_IN_HOUR

\* The transactions of txs whose hour index is idx, in their order.
WithIndex(txs, idx) ==
    LET Matches(tx) == HourIndex(tx) = idx IN SelectSeq(txs, Matches)

\* The cells that hold transactions before or after a step.
HeldCells == {<<c.i, c.j>> : c \in tracking_stats.cells \cup tracking_stats'.cells}

\* A step that ends with a block-connected event on record.
AddedStep ==
    (/\ nt_call' # Nullopt
     /\ nt_call'[1].op = "MempoolTransactionsRemovedForBlock") =>
        LET txs == nt_call'[1].txs IN
        /\ tracking_stats'.sizes = tracking_stats.sizes
        /\ \A k \in 1..Len(txs) :
                HourIndex(txs[k]) < MAX_HOURS =>
                    StatsCell(tracking_stats', HourIndex(txs[k]), HourIndex(txs[k]))
                        = StatsCell(tracking_stats, HourIndex(txs[k]), HourIndex(txs[k]))
                          \o WithIndex(txs, HourIndex(txs[k]))
        /\ \A cell \in HeldCells :
                (\A k \in 1..Len(txs) : <<HourIndex(txs[k]), HourIndex(txs[k])>> # cell) =>
                    StatsCell(tracking_stats', cell[1], cell[2])
                        = StatsCell(tracking_stats, cell[1], cell[2])
        /\ (\A k \in 1..Len(txs) : HourIndex(txs[k]) >= MAX_HOURS) =>
                tracking_stats' = tracking_stats

\* C18: addTxToStats computes idx = max(0, ceil((confirm - arrive) / 3600) - 1)
\* and appends the transaction to stats[idx][idx] and to no other cell; a
\* transaction whose idx is MAX_HOURS or more is dropped and the grid is left
\* as it was.
C18_AddedAtHourIndex == [][fc_subject = "NTime" => AddedStep]_vars

\* A transaction confirmed a second more than an hour after its arrival was
\* added to the cell [1][1], which held one already.
C18_Witness ==
    /\ fc_subject = "NTime"
    /\ nt_call # Nullopt
    /\ nt_call[1].op = "MempoolTransactionsRemovedForBlock"
    /\ Len(nt_call[1].txs) = 1
    /\ nt_call[1].txs[1].m_confirmedTime - nt_call[1].txs[1].m_receivedTime
            = SECONDS_IN_HOUR + 1
    /\ Len(StatsCell(tracking_stats, 1, 1)) = 2

\* The grid has MAX_HOURS rows and row i has i + 1 cells.
Ragged(stats) ==
    /\ GridSize(stats) = MAX_HOURS
    /\ \A i \in 0..(MAX_HOURS - 1) : RowSize(stats, i) = i + 1
    /\ \A c \in stats.cells : c.i \in 0..(MAX_HOURS - 1) /\ c.j \in 0..c.i

\* A step that ends with a run of UpdateTrackingStats on record.
ShiftedStep ==
    (/\ nt_call' # Nullopt
     /\ nt_call'[1].op = "UpdateTrackingStats") =>
        /\ RowSize(tracking_stats', 0) = 1
        /\ \A i \in 0..(MAX_HOURS - 2) :
                RowSize(tracking_stats', i + 1) = RowSize(tracking_stats, i) + 1
        /\ \A c \in tracking_stats.cells :
                c.i < MAX_HOURS - 1 => StatsCell(tracking_stats', c.i + 1, c.j) = c.txs
        /\ \A c \in tracking_stats'.cells :
                c.i >= 1 /\ StatsCell(tracking_stats, c.i - 1, c.j) = c.txs

\* C19: UpdateTrackingStats moves every cell (i, j) with i < MAX_HOURS - 1 to
\* (i + 1, j), makes row 0 a single empty cell, appends one empty cell to each
\* row it moved and drops row MAX_HOURS - 1; the grid always has MAX_HOURS
\* rows, row i having i + 1 cells.
C19_GridShiftedByAnHour ==
    [][fc_subject = "NTime" =>
            /\ Ragged(tracking_stats)
            /\ Ragged(tracking_stats')
            /\ ShiftedStep]_vars

\* UpdateTrackingStats ran on a grid holding a transaction, which now sits one
\* row further than the column it was added to.
C19_Witness ==
    /\ fc_subject = "NTime"
    /\ nt_call # Nullopt
    /\ nt_call[1].op = "UpdateTrackingStats"
    /\ \E c \in tracking_stats.cells : c.i = c.j + 1

(***************************************************************************)
(* NTime::EstimateFee over the grids that bounded histories leave.          *)
(***************************************************************************)
\* A vsize whose weight is three quarters of a block.
SizeP75 == p75_Size \div WITNESS_SCALE_FACTOR

\* The transactions one block of a history removes: none, or one that waited
\* half an hour, of a size that does or does not make a sample sufficient.
HistoryBlocks ==
    {<<>>} \cup {<<[age |-> SECONDS_IN_HOUR \div 2, fee_rate |-> rate, vsize |-> size]>> :
                    rate \in 1..MaxRate, size \in {SizeP25, SizeP75}}

\* A history: a block, gap runs of UpdateTrackingStats an hour apart, a second
\* block, and rest further runs.
Histories == [first : HistoryBlocks, gap : {0, 1, 22, 23}, second : HistoryBlocks,
              rest : {0, 1}]

\* NTime::MempoolTransactionsRemovedForBlock at current_time, as a function of
\* the grid.
Connected(stats, removed, current_time) ==
    AddAll(stats,
           [k \in 1..Len(removed) |->
                ConfirmedTx(current_time - removed[k].age, current_time,
                            removed[k].fee_rate, removed[k].vsize)],
           1)

\* The grid after k runs of UpdateTrackingStats.
RECURSIVE Updated(_, _)
Updated(stats, k) == IF k = 0 THEN stats ELSE Updated(UpdateTrackingStats(stats), k - 1)

\* The grid a history leaves behind, from construction on.
GridAfter(h) ==
    LET first == Connected(initStats, h.first, StartTime)
        later == StartTime + h.gap * SECONDS_IN_HOUR
        second == Connected(Updated(first, h.gap), h.second, later)
    IN  Updated(second, h.rest)

InitNTimeEst == IdleGate /\ InitCacheVars /\ InitEstVars /\ IdlePct /\ InitAggVars
                /\ IdleTenMin /\ IdleUnits
                /\ blocks_percentile = EmptyResult /\ lb_chain_tip_height = 0
                /\ blocks_percentiles = <<>> /\ bf_chain_tip_height = 0
                /\ mp_cache = Nullopt /\ fc_call = Nullopt /\ fc_event = Nullopt
                /\ fc_subject = "NTime"
                /\ \E h \in Histories :
                        /\ tracking_stats = GridAfter(h)
                        /\ get_time = StartTime + (h.gap + h.rest) * SECONDS_IN_HOUR
                        /\ nt_updates = h.gap + h.rest
                /\ nt_call = Nullopt

NextNTimeEst == NTimeEstimate

SpecNTimeEst == InitNTimeEst /\ [][NextNTimeEst]_vars

\* C20: NTime::EstimateFee(hours) returns the 25th and 50th percentiles of
\* whichever of the window and the historical percentiles has the lower 75th
\* percentile, the historical ones when the two are equal; when the window
\* sample is insufficient it returns the window error, and when only the
\* historical sample is insufficient the historical error.
C20_LowerP75Returned ==
    (/\ nt_call # Nullopt
     /\ nt_call[1].op = "EstimateFee"
     /\ nt_call[1].targetHours <= MAX_HOURS) =>
        LET window == GetWindowEstimate(tracking_stats, get_time, nt_call[1].targetHours)
            historical == GetHistoricalEstimate(tracking_stats, get_time, nt_call[1].targetHours)
        IN  nt_call[1].result =
                IF IsEmptyResult(window) THEN Forecast(0, 0, ErrNoWindowEstimate)
                ELSE IF IsEmptyResult(historical) THEN Forecast(0, 0, ErrNoHistoricalEstimate)
                ELSE IF window.p75 < historical.p75
                THEN Forecast(window.p25, window.p50, None)
                ELSE Forecast(historical.p25, historical.p50, None)

\* The window percentiles were returned for having the lower 75th percentile.
C20_Witness ==
    /\ nt_call # Nullopt
    /\ nt_call[1].op = "EstimateFee"
    /\ nt_call[1].targetHours = 1
    /\ LET window == GetWindowEstimate(tracking_stats, get_time, 1)
           historical == GetHistoricalEstimate(tracking_stats, get_time, 1)
       IN  /\ ~IsEmptyResult(window) /\ ~IsEmptyResult(historical)
           /\ window.p75 < historical.p75
           /\ nt_call[1].result = Forecast(window.p25, window.p50, None)

(***************************************************************************)
(* NTime::EstimateFee over a grid that ages for up to MAX_HOURS hours.      *)
(***************************************************************************)
\* The targets at and next to the ends of the range, and those whose
\* historical range starts at the last hour.
EdgeTargets == {1, MAX_HOURS - 24, MAX_HOURS - 23, MAX_HOURS}

\* NTime(), then the first block: one of HistoryBlocks.
InitNTimeAged == IdleGate /\ InitCacheVars /\ InitEstVars /\ IdlePct /\ InitAggVars
                 /\ IdleTenMin /\ IdleUnits
                 /\ blocks_percentile = EmptyResult /\ lb_chain_tip_height = 0
                 /\ blocks_percentiles = <<>> /\ bf_chain_tip_height = 0
                 /\ mp_cache = Nullopt /\ fc_call = Nullopt /\ fc_event = Nullopt
                 /\ fc_subject = "NTime"
                 /\ \E removed \in HistoryBlocks :
                        tracking_stats = Connected(initStats, removed, StartTime)
                 /\ get_time = StartTime
                 /\ nt_updates = 0
                 /\ nt_call = Nullopt

\* The scheduler runs UpdateTrackingStats every hour, until whatever the
\* first block added has left the grid.
NTimeHourly ==
    /\ nt_updates < MAX_HOURS
    /\ tracking_stats' = UpdateTrackingStats(tracking_stats)
    /\ get_time' = get_time + SECONDS_IN_HOUR
    /\ nt_updates' = nt_updates + 1
    /\ nt_call' = Some([op |-> "UpdateTrackingStats"])
    /\ UNCHANGED <<fc_vars, now, load_tried, fc_rest>>

NTimeEdgeEstimate ==
    /\ \E targetHours \in EdgeTargets :
            nt_call' = Some([op |-> "EstimateFee", targetHours |-> targetHours,
                             result |-> NTime_Result(tracking_stats, get_time, targetHours)])
    /\ UNCHANGED <<tracking_stats, get_time, nt_updates, fc_vars, now, load_tried, fc_rest>>

NextNTimeAged == NTimeHourly \/ NTimeEdgeEstimate

SpecNTimeAged == InitNTimeAged /\ [][NextNTimeAged]_vars

\* The tracked transactions, of any cell, that were seen at or after
\* start_timestamp and confirmed at or before end_timestamp.
RECURSIVE TrackedWithin(_, _, _)
TrackedWithin(cells, start_timestamp, end_timestamp) ==
    IF cells = {} THEN <<>>
    ELSE LET c == CHOOSE d \in cells : TRUE
         IN  SelectSeq(c.txs, LAMBDA tx : /\ tx.m_receivedTime >= start_timestamp
                                          /\ tx.m_confirmedTime <= end_timestamp)
             \o TrackedWithin(cells \ {c}, start_timestamp, end_timestamp)

\* The percentiles of the tracked transactions of the range [start_hr, end_hr].
RangePercentiles(stats, current_time, start_hr, end_hr) ==
    LET sorted == SortByRate(TrackedWithin(stats.cells,
                                           current_time - start_hr * SECONDS_IN_HOUR,
                                           current_time - end_hr * SECONDS_IN_HOUR))
    IN  BlockPercentilesOf([k \in 1..Len(sorted) |-> Entry(sorted[k].fee_rate, sorted[k].vsize)])

\* C21: for every target from 1 to MaxTarget() = 504 hours, when the tracked
\* transactions of the window range [hours, 0] and those of the historical
\* range [ceil(hours/24)*24, ceil(hours/24)*24 - hours] are both enough for
\* percentiles, NTime::EstimateFee returns an estimate drawn from them and no
\* error.
C21_EstimateForEveryTarget ==
    (/\ nt_call # Nullopt
     /\ nt_call[1].op = "EstimateFee"
     /\ nt_call[1].targetHours \in 1..MAX_HOURS) =>
        LET hours == nt_call[1].targetHours
            window == RangePercentiles(tracking_stats, get_time, hours, 0)
            historical == RangePercentiles(tracking_stats, get_time, HistoricalStart(hours),
                                           HistoricalStart(hours) - hours)
        IN  (~IsEmptyResult(window) /\ ~IsEmptyResult(historical)) =>
                /\ nt_call[1].result.err_message = None
                /\ nt_call[1].result \in {Forecast(window.p25, window.p50, None),
                                          Forecast(historical.p25, historical.p50, None)}

(***************************************************************************)
(* The locks a thread takes while it runs EstimateFeeWithMemPool.          *)
(***************************************************************************)
\* The steps of a call: taking a lock, releasing one, and the operations the
\* locks are there for.
Lock(m) == [op |-> "lock", mutex |-> m]
Unlock(m) == [op |-> "unlock", mutex |-> m]
Do(what) == [op |-> what, mutex |-> "none"]

\* LOCK2(cs_main, m_mempool->cs): two scoped locks, cs_main taken first.
LOCK2 == <<Lock("cs_main"), Lock("mempool.cs")>>

\* The end of the scope of LOCK2: the locks are released in reverse order.
EndOfLOCK2 == <<Unlock("mempool.cs"), Unlock("cs_main")>>

\* cache.get(): the lookup under the cache's own mutex.
CacheGetSteps == <<Lock("cache_mutex"), Do("cache.get"), Unlock("cache_mutex")>>

\* cache.update(): the replacement under the cache's own mutex.
CacheUpdateSteps == <<Lock("cache_mutex"), Do("cache.update"), Unlock("cache_mutex")>>

\* Whether the percentiles of a sample are rejected as not enough.
NotEnough(stats) ==
    IsEmptyResult(BlockPercentilesOf(stats)) \/ BlockPercentilesOf(stats).p75 = 0

\* MemPoolForecaster::EstimateFeeWithMemPool: LOCK2 is its first statement and
\* its scope is the whole function, so every return releases the two locks.
MemPoolForecaster_Steps(in) ==
    LOCK2 \o <<Do("checks")>>
    \o (IF TargetCheck(in.targetBlocks, MEMPOOL_FORECAST_MAX_TARGET) # None \/ ~in.load_tried
        THEN <<>>
        ELSE CacheGetSteps
             \o (IF in.cached THEN <<>>
                 ELSE <<Do("snapshot")>>
                      \o (IF in.stats = <<>> THEN <<>>
                          ELSE <<Do("percentiles")>>
                               \o (IF NotEnough(in.stats) THEN <<>> ELSE CacheUpdateSteps))))
    \o EndOfLOCK2

\* MemPoolLast10MinForecaster::EstimateFeeWithMemPool: the same scope, no cache.
Last10Min_Steps(in) ==
    LOCK2 \o <<Do("checks")>>
    \o (IF TargetCheck(in.targetBlocks, MEMPOOL_LAST_10_MIN_FORECAST_MAX_TARGET) # None
           \/ ~in.load_tried
        THEN <<>>
        ELSE <<Do("snapshot"), Do("sample"), Do("percentiles")>>)
    \o EndOfLOCK2

\* MemPoolPolicyEstimator::EstimateFeeWithMemPool: LOCK2 sits in a block of its
\* own around the call that reads the mempool.
PolicyEstimator_Steps(in) ==
    <<Do("checks")>>
    \o (IF in.targetBlocks > MAX_CONF_TARGET \/ ~in.load_tried \/ ~in.synced THEN <<>>
        ELSE (IF in.force THEN <<>> ELSE CacheGetSteps)
             \o (IF ~in.force /\ in.cached THEN <<>>
                 ELSE LOCK2 \o <<Do("snapshot")>> \o EndOfLOCK2
                      \o (IF in.stats = <<>> THEN <<>>
                          ELSE <<Do("percentiles")>> \o CacheUpdateSteps)))

\* The samples the mempool yields: none, too light a one, and a sufficient one.
LockSamples == {<<>>, <<Entry(1, SizeP25)>>, <<Entry(1, SizeP25), Entry(2, SizeP50)>>}

\* The calls: which object, and what the call meets.
LockCalls ==
    [subject : {"MemPoolForecaster", "MemPoolLast10MinForecaster"},
     targetBlocks : 0..(MEMPOOL_LAST_10_MIN_FORECAST_MAX_TARGET + 1), load_tried : BOOLEAN,
     cached : BOOLEAN, stats : LockSamples, force : {FALSE}, synced : {TRUE}]
    \cup
    [subject : {"MemPoolPolicyEstimator"},
     targetBlocks : 1..(MAX_CONF_TARGET + 1), load_tried : BOOLEAN,
     cached : BOOLEAN, stats : LockSamples, force : BOOLEAN, synced : BOOLEAN]

StepsOf(in) ==
    CASE in.subject = "MemPoolForecaster" -> MemPoolForecaster_Steps(in)
      [] in.subject = "MemPoolLast10MinForecaster" -> Last10Min_Steps(in)
      [] in.subject = "MemPoolPolicyEstimator" -> PolicyEstimator_Steps(in)

InitLocks == IdleGate /\ InitCacheVars /\ InitEstVars /\ IdlePct /\ InitAggVars
             /\ IdleFc /\ IdleNTime /\ IdleTenMin /\ IdleLocks /\ IdleRace /\ IdleFeeFrac
             /\ IdleSharedMutex /\ IdleLastBlockRace

lock_rest == <<gate_vars, cache_vars, est_vars, pct_vars, agg_vars, fc_vars, ntime_vars,
               tenmin_vars, race_vars, feefrac_vars, shared_mutex_vars,
               last_block_race_vars>>

\* A thread enters EstimateFeeWithMemPool; it holds no lock.
LockCall ==
    /\ lk_todo = <<>>
    /\ \E in \in LockCalls :
            /\ lk_call' = Some(in)
            /\ lk_todo' = StepsOf(in)
    /\ lk_held' = <<>>
    /\ lk_step' = Nullopt
    /\ UNCHANGED lock_rest

\* The thread takes the next step of the call.
LockStep ==
    /\ lk_todo # <<>>
    /\ LET step == Head(lk_todo) IN
        /\ lk_held' = CASE step.op = "lock" -> Append(lk_held, step.mutex)
                        [] step.op = "unlock" ->
                                SelectSeq(lk_held, LAMBDA m : m # step.mutex)
                        [] OTHER -> lk_held
        /\ lk_step' = Some([step |-> step, held |-> lk_held])
    /\ lk_todo' = Tail(lk_todo)
    /\ UNCHANGED <<lk_call, lock_rest>>

NextLocks == LockCall \/ LockStep

SpecLocks == InitLocks /\ [][NextLocks]_vars

\* C22: a thread in MemPoolForecaster or MemPoolLast10MinForecaster takes
\* the mempool lock only while it holds the chainstate lock, holds neither
\* of the two while the percentiles are computed, and holds no mempool lock
\* when it takes the cache lock for cache.get or cache.update.
C22_LocksOnlyAroundSnapshot ==
    (/\ lk_step # Nullopt
     /\ lk_call[1].subject \in {"MemPoolForecaster", "MemPoolLast10MinForecaster"}) =>
        LET step == lk_step[1].step
            held == {lk_step[1].held[k] : k \in 1..Len(lk_step[1].held)}
        IN  /\ step = Lock("mempool.cs") => "cs_main" \in held
            /\ step = Lock("cs_main") => "mempool.cs" \notin held
            /\ step.op = "percentiles" => held \cap {"cs_main", "mempool.cs"} = {}
            /\ step = Lock("cache_mutex") => "mempool.cs" \notin held

(***************************************************************************)
(* NTime with its callers on their threads: the notification thread runs    *)
(* the block-connected callback and UpdateTrackingStats one after another,  *)
(* another thread calls EstimateFee.  NTime declares no mutex and none of   *)
(* its functions takes a lock, so nothing orders the two threads.           *)
(***************************************************************************)
\* The targets the reading thread asks for.
RaceTargets == {1, 24}

\* What a read of the grid that overlaps a write of it may return: the data
\* race leaves the result to the build.
RacedResults(stats, current_time, targetHours) ==
    {NTime_Result(stats, current_time, targetHours),
     Forecast(0, 0, ErrNoWindowEstimate), Forecast(0, 0, None)}

InitRace == IdleGate /\ InitCacheVars /\ InitEstVars /\ IdlePct /\ InitAggVars
            /\ blocks_percentile = EmptyResult /\ lb_chain_tip_height = 0
            /\ blocks_percentiles = <<>> /\ bf_chain_tip_height = 0
            /\ mp_cache = Nullopt /\ fc_call = Nullopt /\ fc_event = Nullopt
            /\ fc_subject = "NTime"
            /\ InitNTimeVars /\ IdleTenMin /\ IdleLocks /\ IdleRace /\ IdleFeeFrac
            /\ IdleSharedMutex /\ IdleLastBlockRace

race_rest == <<gate_vars, cache_vars, est_vars, pct_vars, agg_vars, fc_vars, tenmin_vars,
               lock_vars, feefrac_vars, shared_mutex_vars, last_block_race_vars>>

\* A thread enters NTime::EstimateFee and begins to read tracking_stats.
RaceReadBegins ==
    /\ nr_reader = Nullopt
    /\ \E targetHours \in RaceTargets :
            nr_reader' = Some([targetHours |-> targetHours, raced |-> nr_writer # Nullopt])
    /\ UNCHANGED <<ntime_vars, nr_writer, nr_done, race_rest>>

\* It returns from GetHistoricalEstimate and EstimateFee.
RaceReadEnds ==
    /\ nr_reader # Nullopt
    /\ LET targetHours == nr_reader[1].targetHours IN
        \E result \in IF nr_reader[1].raced
                      THEN RacedResults(tracking_stats, get_time, targetHours)
                      ELSE {NTime_Result(tracking_stats, get_time, targetHours)} :
            nt_call' = Some([op |-> "EstimateFee", targetHours |-> targetHours,
                             result |-> result])
    /\ nr_reader' = Nullopt
    /\ UNCHANGED <<tracking_stats, get_time, nt_updates, nr_writer, nr_done, race_rest>>

\* The notification thread enters MempoolTransactionsRemovedForBlock or
\* UpdateTrackingStats and begins to write tracking_stats.
RaceWriteBegins ==
    /\ nr_writer = Nullopt
    /\ \/ \E removed \in RemovedLists :
            /\ TrackedCount(tracking_stats) + Len(removed) <= MaxTracked
            /\ nr_writer' = Some([op |-> "MempoolTransactionsRemovedForBlock",
                                  txs |-> [k \in 1..Len(removed) |->
                                            ConfirmedTx(get_time - removed[k].age, get_time,
                                                        removed[k].fee_rate,
                                                        removed[k].vsize)]])
       \/ /\ nt_updates < MaxUpdates
          /\ nr_writer' = Some([op |-> "UpdateTrackingStats", txs |-> <<>>])
    /\ nr_reader' = IF nr_reader = Nullopt THEN Nullopt
                    ELSE Some([nr_reader[1] EXCEPT !.raced = TRUE])
    /\ UNCHANGED <<ntime_vars, nr_done, race_rest>>

\* It returns: the grid is the one the handler leaves.
RaceWriteEnds ==
    /\ nr_writer # Nullopt
    /\ IF nr_writer[1].op = "UpdateTrackingStats"
       THEN /\ tracking_stats' = UpdateTrackingStats(tracking_stats)
            /\ get_time' = get_time + SECONDS_IN_HOUR
            /\ nt_updates' = nt_updates + 1
       ELSE /\ tracking_stats' = AddAll(tracking_stats, nr_writer[1].txs, 1)
            /\ UNCHANGED <<get_time, nt_updates>>
    /\ nr_done' = Some([op |-> nr_writer[1].op, txs |-> nr_writer[1].txs,
                        before |-> tracking_stats])
    /\ nr_writer' = Nullopt
    /\ UNCHANGED <<nt_call, nr_reader, race_rest>>

NextRace == RaceReadBegins \/ RaceReadEnds \/ RaceWriteBegins \/ RaceWriteEnds

SpecRace == InitRace /\ [][NextRace]_vars

\* How often tx occurs in the cell (i, j) of a grid.
Held(stats, i, j, tx) ==
    Cardinality({k \in 1..Len(StatsCell(stats, i, j)) : StatsCell(stats, i, j)[k] = tx})

\* C23: no thread reads the NTime grid in EstimateFee while the notification
\* thread is writing it, and the grid loses no transaction: after the
\* callback every transaction it appended, and after an hourly shift every
\* transaction the grid held below row 503, is in the grid.
C23_GridReadUnderWritersLock ==
    /\ ~(nr_reader # Nullopt /\ nr_writer # Nullopt)
    /\ (nr_done # Nullopt /\ nr_done[1].op = "UpdateTrackingStats") =>
            \A c \in nr_done[1].before.cells :
                c.i < MAX_HOURS - 1 => StatsCell(tracking_stats, c.i + 1, c.j) = c.txs
    /\ (nr_done # Nullopt /\ nr_done[1].op = "MempoolTransactionsRemovedForBlock") =>
            \A k \in 1..Len(nr_done[1].txs) :
                LET tx == nr_done[1].txs[k]
                    idx == HourIndex(tx)
                IN  idx < MAX_HOURS =>
                        Held(tracking_stats, idx, idx, tx) >
                            Held(nr_done[1].before, idx, idx, tx)

(***************************************************************************)
(* FeeFrac: a fee and a size, and its comparison operators.                 *)
(***************************************************************************)
\* Fees range over -MaxFee..MaxFee and sizes over -1..MaxSize.
MaxFee == 3
MaxSize == 3

\* struct FeeFrac { int64_t fee; int32_t size; }
FeeFrac(f, s) == [fee |-> f, size |-> s]

\* The FeeFracs the constructor's Assume(size != 0 || fee == 0) admits.
FeeFracs == {FeeFrac(f, s) : f \in -MaxFee..MaxFee, s \in (-1)..MaxSize} \
                {FeeFrac(f, 0) : f \in (-MaxFee..MaxFee) \ {0}}

\* FeeFrac::IsEmpty
IsEmpty(a) == a.size = 0

\* FeeFrac::Mul where __int128 is available: the product, never wrapped.
Mul(a, b) == a * b

\* x <=> y of two integers.
ThreeWay(x, y) == IF x < y THEN "less" ELSE IF x > y THEN "greater" ELSE "equal"

\* operator==
FeeFracEq(a, b) == a.fee = b.fee /\ a.size = b.size

\* FeeRateCompare, a std::weak_ordering.
FeeRateCompare(a, b) ==
    LET cross_a == Mul(a.fee, b.size)
        cross_b == Mul(b.fee, a.size)
    IN  ThreeWay(cross_a, cross_b)

\* The comparison with equal cross products left equal.
Spaceship_NoTieBreak(a, b) == FeeRateCompare(a, b)

\* operator<=>
Spaceship(a, b) ==
    LET cross_a == Mul(a.fee, b.size)
        cross_b == Mul(b.fee, a.size)
    IN  IF cross_a = cross_b THEN ThreeWay(b.size, a.size)
        ELSE ThreeWay(cross_a, cross_b)

\* operator< and operator>, generated from operator<=>.
FeeFracLt(a, b) == Spaceship(a, b) = "less"
FeeFracGt(a, b) == Spaceship(a, b) = "greater"

\* The total order in the place of the comparison of fee rates.
RateLower_TotalOrder(a, b) == FeeFracLt(a, b)

\* operator<<
RateLower(a, b) ==
    LET cross_a == Mul(a.fee, b.size)
        cross_b == Mul(b.fee, a.size)
    IN  cross_a < cross_b

\* operator>>
RateHigher(a, b) ==
    LET cross_a == Mul(a.fee, b.size)
        cross_b == Mul(b.fee, a.size)
    IN  cross_a > cross_b

feefrac_rest == <<gate_vars, cache_vars, est_vars, pct_vars, agg_vars, fc_vars, ntime_vars,
                  tenmin_vars, lock_vars, race_vars, shared_mutex_vars,
                  last_block_race_vars>>

IdleButFeeFrac == IdleGate /\ InitCacheVars /\ InitEstVars /\ IdlePct /\ InitAggVars
                  /\ IdleFc /\ IdleNTime /\ IdleTenMin /\ IdleLocks /\ IdleRace
                  /\ IdleSharedMutex /\ IdleLastBlockRace

\* Two FeeFracs a and b.
InitFeeFrac == IdleButFeeFrac /\ ff_in \in FeeFracs \X FeeFracs /\ ff_out = Nullopt

\* Every comparison operator is applied to a and b.
CompareFeeFracs ==
    /\ ff_out = Nullopt
    /\ LET a == ff_in[1]
           b == ff_in[2]
       IN  ff_out' = Some([cmp |-> Spaceship(a, b), lt |-> FeeFracLt(a, b),
                           eq |-> FeeFracEq(a, b), gt |-> FeeFracGt(a, b),
                           rate |-> FeeRateCompare(a, b),
                           lower |-> RateLower(a, b), higher |-> RateHigher(a, b)])
    /\ UNCHANGED <<ff_in, feefrac_rest>>

NextFeeFrac == CompareFeeFracs

SpecFeeFrac == InitFeeFrac /\ [][NextFeeFrac]_vars

\* C24: for FeeFracs a and b with size == 0 => fee == 0, exactly one of
\* a < b, a == b and a > b holds, and a <=> b is equal exactly when a and b
\* have the same fee and the same size.
C24_ExactlyOneOfLtEqGt ==
    ff_out # Nullopt =>
        LET a == ff_in[1]
            b == ff_in[2]
            r == ff_out[1]
        IN  /\ Cardinality({k \in {"lt", "eq", "gt"} : r[k]}) = 1
            /\ (r.cmp = "equal") <=> (a.fee = b.fee /\ a.size = b.size)

\* Two different FeeFracs of one fee rate were compared.
C24_Witness ==
    /\ ff_out # Nullopt
    /\ ff_in[1] # ff_in[2]
    /\ ff_in[1].fee * ff_in[2].size = ff_in[2].fee * ff_in[1].size
    /\ ff_in[1].size > 0 /\ ff_in[2].size > 0
    /\ ~ff_out[1].eq

(***************************************************************************)
(* BuildDiagramFromUnsortedChunks                                          *)
(***************************************************************************)
\* Lists of up to MaxChunks chunks, with fees in -1..MaxChunkFee and sizes in
\* 0..MaxChunkSize.
MaxChunks == 3
MaxChunkFee == 2
MaxChunkSize == 2

Chunks == {FeeFrac(f, s) : f \in (-1)..MaxChunkFee, s \in 1..MaxChunkSize}
            \cup {FeeFrac(0, 0)}

RECURSIVE ListsOf(_, _)
ListsOf(S, n) ==
    IF n = 0 THEN {<<>>}
    ELSE ListsOf(S, n - 1) \cup {Append(l, x) : l \in {m \in ListsOf(S, n - 1) : Len(m) = n - 1},
                                                x \in S}

ChunkLists == ListsOf(Chunks, MaxChunks)

\* The sort with the order of the tie-break turned round.
Descending_LargerFirst(a, b) ==
    LET cross_a == Mul(a.fee, b.size)
        cross_b == Mul(b.fee, a.size)
    IN  IF cross_a = cross_b THEN a.size > b.size ELSE cross_a > cross_b

\* The comparator [](const FeeFrac& a, const FeeFrac& b) { return a > b; }
Descending(a, b) == FeeFracGt(a, b)

\* sorted, a list in the comparator's order, with chunk put before the first
\* entry the comparator puts it before.
RECURSIVE InsertChunk(_, _)
InsertChunk(sorted, chunk) ==
    IF sorted = <<>> THEN <<chunk>>
    ELSE IF Descending(chunk, Head(sorted)) THEN <<chunk>> \o sorted
    ELSE <<Head(sorted)>> \o InsertChunk(Tail(sorted), chunk)

\* The chunks left as they came.
SortChunks_AsGiven(chunks) == chunks

\* std::sort(chunks.begin(), chunks.end(), comparator)
RECURSIVE SortChunks(_)
SortChunks(chunks) ==
    IF chunks = <<>> THEN <<>>
    ELSE InsertChunk(SortChunks(SubSeq(chunks, 1, Len(chunks) - 1)), chunks[Len(chunks)])

\* The points with each chunk taken on its own.
RECURSIVE Accumulate_FromZero(_, _)
Accumulate_FromZero(diagram, chunks) ==
    IF chunks = <<>> THEN diagram
    ELSE Accumulate_FromZero(Append(diagram, Head(chunks)), Tail(chunks))

\* for (auto& chunk : chunks) diagram.emplace_back(last.fee + chunk.fee,
\*                                                 last.size + chunk.size)
RECURSIVE Accumulate(_, _)
Accumulate(diagram, chunks) ==
    IF chunks = <<>> THEN diagram
    ELSE LET last == diagram[Len(diagram)]
         IN  Accumulate(Append(diagram, FeeFrac(last.fee + Head(chunks).fee,
                                               last.size + Head(chunks).size)),
                        Tail(chunks))

\* BuildDiagramFromUnsortedChunks(chunks, diagram): both arguments as the
\* call leaves them.
BuildDiagramFromUnsortedChunks(chunks) ==
    LET sorted == SortChunks(chunks)
    IN  [chunks |-> sorted, diagram |-> Accumulate(<<FeeFrac(0, 0)>>, sorted)]

\* A list of chunks in any order.
InitDiagram == IdleButFeeFrac /\ ff_in \in ChunkLists /\ ff_out = Nullopt

BuildDiagram ==
    /\ ff_out = Nullopt
    /\ ff_out' = Some(BuildDiagramFromUnsortedChunks(ff_in))
    /\ UNCHANGED <<ff_in, feefrac_rest>>

NextDiagram == BuildDiagram

SpecDiagram == InitDiagram /\ [][NextDiagram]_vars

\* The sign of f1*s2 - f2*s1: positive when a has the higher fee rate.
RateSign(a, b) == a.fee * b.size - b.fee * a.size

\* C25: sorting FeeFracs of non-negative size by > puts every empty one
\* before every non-empty one, and the non-empty ones in decreasing fee rate
\* (by the sign of f1*s2 - f2*s1) with, among equal fee rates, the smaller
\* size first.
C25_SortedEmptyRateThenSize ==
    ff_out # Nullopt =>
        LET sorted == ff_out[1].chunks IN
        \A i, j \in 1..Len(sorted) :
            i < j =>
                /\ IsEmpty(sorted[j]) => IsEmpty(sorted[i])
                /\ (~IsEmpty(sorted[i]) /\ ~IsEmpty(sorted[j])) =>
                        /\ RateSign(sorted[i], sorted[j]) >= 0
                        /\ RateSign(sorted[i], sorted[j]) = 0 =>
                                sorted[i].size <= sorted[j].size

\* Three chunks that came in another order were sorted: an empty one, and two
\* of one fee rate and different sizes.
C25_Witness ==
    /\ ff_out # Nullopt
    /\ Len(ff_in) = 3
    /\ ff_in # ff_out[1].chunks
    /\ IsEmpty(ff_out[1].chunks[1])
    /\ ~IsEmpty(ff_out[1].chunks[2])
    /\ RateSign(ff_out[1].chunks[2], ff_out[1].chunks[3]) = 0
    /\ ff_out[1].chunks[2].size < ff_out[1].chunks[3].size

\* C26: a << b holds iff fee_a*size_b < fee_b*size_a and a >> b iff
\* fee_a*size_b > fee_b*size_a; both are false for two FeeFracs of equal fee
\* rate, whatever their sizes, and whenever a or b is empty.
C26_StrictRateOperators ==
    ff_out # Nullopt =>
        LET a == ff_in[1]
            b == ff_in[2]
            r == ff_out[1]
        IN  /\ r.lower <=> (a.fee * b.size < b.fee * a.size)
            /\ r.higher <=> (a.fee * b.size > b.fee * a.size)
            /\ (a.fee * b.size = b.fee * a.size) => (~r.lower /\ ~r.higher)
            /\ (IsEmpty(a) \/ IsEmpty(b)) => (~r.lower /\ ~r.higher)

\* An empty FeeFrac was compared with one that pays a fee, and the total
\* order tells them apart.
C26_Witness ==
    /\ ff_out # Nullopt
    /\ IsEmpty(ff_in[1]) /\ ~IsEmpty(ff_in[2]) /\ ff_in[2].fee > 0
    /\ ff_out[1].gt
    /\ ~ff_out[1].lower /\ ~ff_out[1].higher

(***************************************************************************)
(* FeeFrac::MulFallback.  The word of int32_t and uint32_t is modelled with *)
(* WordBits bits and int64_t with twice as many, so that every pair of      *)
(* operands can be multiplied; the function splits a at the word.           *)
(***************************************************************************)
WordBits == 3

RECURSIVE Pow2(_)
Pow2(n) == IF n = 0 THEN 1 ELSE 2 * Pow2(n - 1)

\* 2^32 at the modelled width.
Word == Pow2(WordBits)

\* The values of int32_t and of int64_t at the modelled width.
Int32s == (-(Word \div 2))..(Word \div 2 - 1)
Int64s == (-((Word * Word) \div 2))..((Word * Word) \div 2 - 1)

\* The fallback with the low word of a read as a signed one.
MulFallback_SignedLow(a, b) ==
    LET low == (((a + Word \div 2) % Word) - Word \div 2) * b
        high == (a \div Word) * b
    IN  [first |-> high + (low \div Word), second |-> low % Word,
         fits |-> {low, high, high + (low \div Word)} \subseteq Int64s]

\* FeeFrac::MulFallback: static_cast<uint32_t>(a) is a modulo the word,
\* a >> 32 and low >> 32 are the floored quotients by it.  fits tells
\* whether low, high and the sum returned are values of int64_t.
MulFallback(a, b) ==
    LET low == (a % Word) * b
        high == (a \div Word) * b
    IN  [first |-> high + (low \div Word), second |-> low % Word,
         fits |-> {low, high, high + (low \div Word)} \subseteq Int64s]

\* operator<=> of std::pair<int64_t, uint32_t>
PairThreeWay(p, q) ==
    IF p.first # q.first THEN ThreeWay(p.first, q.first) ELSE ThreeWay(p.second, q.second)

\* The second pair of operands: the ends of the two ranges and the values
\* around zero and the word.
EdgeOperands ==
    {-((Word * Word) \div 2), -1, 0, 1, Word, (Word * Word) \div 2 - 1}
        \X {-(Word \div 2), -1, 1, Word \div 2 - 1}

\* Operands a, b and a second pair c, d to compare the product with.
InitMul == IdleButFeeFrac
           /\ ff_in \in {<<a, b, e[1], e[2]>> : a \in Int64s, b \in Int32s, e \in EdgeOperands}
           /\ ff_out = Nullopt

\* Both products are computed on both paths, and compared on both.
MultiplyBothWays ==
    /\ ff_out = Nullopt
    /\ LET a == ff_in[1]
           b == ff_in[2]
           c == ff_in[3]
           d == ff_in[4]
       IN  ff_out' = Some([fallback |-> MulFallback(a, b), other |-> MulFallback(c, d),
                           fallback_order |-> PairThreeWay(MulFallback(a, b),
                                                           MulFallback(c, d)),
                           mul_order |-> ThreeWay(Mul(a, b), Mul(c, d))])
    /\ UNCHANGED <<ff_in, feefrac_rest>>

NextMul == MultiplyBothWays

SpecMul == InitMul /\ [][NextMul]_vars

\* C27: MulFallback(a, b) returns (high, low) with high * 2^32 + low = a * b
\* and low a uint32_t, none of its intermediate values leaves int64_t, and
\* the lexicographic order of two results is the order of the two products,
\* the one the 128-bit Mul path gives.
C27_MulFallbackExact ==
    ff_out # Nullopt =>
        LET r == ff_out[1] IN
        /\ r.fallback.fits
        /\ r.fallback.second \in 0..(Word - 1)
        /\ r.fallback.first * Word + r.fallback.second = ff_in[1] * ff_in[2]
        /\ r.fallback_order = ThreeWay(ff_in[1] * ff_in[2], ff_in[3] * ff_in[4])
        /\ r.fallback_order = r.mul_order

\* Two negative products that differ only in the low word were compared.
C27_Witness ==
    /\ ff_out # Nullopt
    /\ ff_in[1] * ff_in[2] < 0 /\ ff_in[3] * ff_in[4] < 0
    /\ ff_in[1] % Word # 0
    /\ ff_out[1].fallback.first = ff_out[1].other.first
    /\ ff_out[1].fallback_order = "less"

\* How often chunk occurs in a list of chunks.
Occurrences(chunks, chunk) == Cardinality({k \in 1..Len(chunks) : chunks[k] = chunk})

\* The componentwise sum of a list of chunks, in the order of the list.
RECURSIVE SumOfChunks(_)
SumOfChunks(chunks) ==
    IF chunks = <<>> THEN FeeFrac(0, 0)
    ELSE FeeFrac(Head(chunks).fee + SumOfChunks(Tail(chunks)).fee,
                 Head(chunks).size + SumOfChunks(Tail(chunks)).size)

\* C28: BuildDiagramFromUnsortedChunks leaves chunks holding the chunks it was
\* given, each as often as before, in FeeFrac-descending order, and a diagram
\* of |chunks| + 1 points with diagram[0] = (0, 0) and
\* diagram[k] = diagram[k-1] + chunks[k-1]; its last point is the sum of the
\* chunks as they were given.
C28_ChunksReorderedAndAccumulated ==
    ff_out # Nullopt =>
        LET chunks == ff_out[1].chunks
            diagram == ff_out[1].diagram
        IN  /\ Len(chunks) = Len(ff_in)
            /\ \A c \in Chunks : Occurrences(chunks, c) = Occurrences(ff_in, c)
            /\ \A i, j \in 1..Len(chunks) : i < j => Spaceship(chunks[i], chunks[j]) # "less"
            /\ Len(diagram) = Len(ff_in) + 1
            /\ diagram[1] = FeeFrac(0, 0)
            /\ \A k \in 1..Len(chunks) :
                    diagram[k + 1] = FeeFrac(diagram[k].fee + chunks[k].fee,
                                             diagram[k].size + chunks[k].size)
            /\ diagram[Len(diagram)] = SumOfChunks(ff_in)

\* A diagram was built from three different chunks given in ascending order.
C28_Witness ==
    /\ ff_out # Nullopt
    /\ Len(ff_in) = 3
    /\ Spaceship(ff_in[1], ff_in[2]) = "less" /\ Spaceship(ff_in[2], ff_in[3]) = "less"
    /\ ff_out[1].chunks = <<ff_in[3], ff_in[2], ff_in[1]>>
    /\ ff_out[1].diagram[4].size > ff_out[1].diagram[3].size

\* C29: for chunks of non-negative size the sizes of the diagram's points
\* never decrease, and no segment of the diagram has a higher fee rate, by
\* cross product, than a segment before it; empty chunks and chunks of zero
\* fee included.
C29_DiagramConcave ==
    ff_out # Nullopt =>
        LET diagram == ff_out[1].diagram
            Segment(k) == FeeFrac(diagram[k + 1].fee - diagram[k].fee,
                                  diagram[k + 1].size - diagram[k].size)
        IN  /\ \A k \in 1..(Len(diagram) - 1) : diagram[k].size <= diagram[k + 1].size
            /\ \A i, j \in 1..(Len(diagram) - 1) :
                    i < j => Segment(j).fee * Segment(i).size <= Segment(i).fee * Segment(j).size

\* A diagram was built from an empty chunk, a chunk of zero fee and a chunk
\* that pays, given in the opposite of the sorted order.
C29_Witness ==
    /\ ff_out # Nullopt
    /\ Len(ff_in) = 3
    /\ ff_in[1].fee = 0 /\ ff_in[1].size > 0
    /\ ff_in[2].fee > 0
    /\ IsEmpty(ff_in[3])
    /\ ff_out[1].diagram[2] = FeeFrac(0, 0)
    /\ ff_out[1].diagram[4] = SumOfChunks(ff_in)

(***************************************************************************)
(* CompareFeerateDiagram                                                   *)
(***************************************************************************)
\* Diagrams of up to MaxPoints points after (0, 0), with fees in
\* 0..MaxPointFee and sizes in 0..MaxPointSize.
MaxPoints == 2
MaxPointFee == 1
MaxPointSize == 2

Points ==
    {FeeFrac(f, s) : f \in 0..MaxPointFee, s \in 1..MaxPointSize} \cup {FeeFrac(0, 0)}

\* The diagrams that start at (0, 0) and whose sizes never decrease.
Diagrams ==
    {<<FeeFrac(0, 0)>> \o l : l \in {m \in ListsOf(Points, MaxPoints) :
                                        \A k \in 1..(Len(m) - 1) : m[k].size <= m[k + 1].size}}

\* operator-
Minus(a, b) == FeeFrac(a.fee - b.fee, a.size - b.size)

\* The Assume of the constructor: a FeeFrac of size 0 has fee 0.
Constructed(a) == a.size # 0 \/ a.fee = 0

\* The other of the two diagrams, !side.
Other(side) == 1 - side

\* better_somewhere after a comparison that came out as cmp for side.
Better(better_somewhere, side, cmp) ==
    [d \in {0, 1} |-> \/ better_somewhere[d]
                      \/ (d = side /\ cmp = "greater")
                      \/ (d = Other(side) /\ cmp = "less")]

\* The side whose next point has the larger size, diagram 1 when they are equal.
UnprocSide_Larger(size0, size1) == IF size0 > size1 THEN 0 ELSE 1

\* const int unproc_side = next_point(0).size > next_point(1).size;
UnprocSide(size0, size1) == IF size0 > size1 THEN 1 ELSE 0

\* The first loop of CompareFeerateDiagram, over the sizes both diagrams
\* cover.  next_index[d] counts the processed points of diagram d, so its
\* next point is the one after them; assumed tells whether every Assume held,
\* and steps lists, for each pass of the loop, the two next points, the side
\* chosen, the points compared and the indexes after the pass.
RECURSIVE Overlap(_, _, _, _)
Overlap(dias, next_index, better_somewhere, assumed) ==
    IF ~(next_index[0] < Len(dias[0]) /\ next_index[1] < Len(dias[1]))
    THEN [next_index |-> next_index, better_somewhere |-> better_somewhere,
          assumed |-> assumed, steps |-> <<>>]
    ELSE LET next_point(dia) == dias[dia][next_index[dia] + 1]
             prev_point(dia) == dias[dia][next_index[dia]]
             unproc_side == UnprocSide(next_point(0).size, next_point(1).size)
             point_p == next_point(unproc_side)
             point_a == prev_point(Other(unproc_side))
             point_b == next_point(Other(unproc_side))
             coef_ab == Minus(point_b, point_a)
             coef_ap == Minus(point_p, point_a)
             cmp == FeeRateCompare(coef_ap, coef_ab)
             held == /\ Constructed(coef_ab) /\ Constructed(coef_ap)
                     /\ coef_ap.size > 0
                     /\ coef_ab.size >= coef_ap.size
             advanced == [d \in {0, 1} |->
                            IF d = unproc_side \/ point_b.size = point_p.size
                            THEN next_index[d] + 1 ELSE next_index[d]]
             step == [next |-> [d \in {0, 1} |-> next_point(d)],
                      unproc_side |-> unproc_side,
                      point_p |-> point_p, point_a |-> point_a, point_b |-> point_b,
                      before |-> next_index, after |-> advanced, assumed |-> held]
             rest == Overlap(dias, advanced, Better(better_somewhere, unproc_side, cmp),
                             assumed /\ held)
         IN  [rest EXCEPT !.steps = <<step>> \o @]

\* The second loop: the rest of the longer diagram against the last point of
\* the other.
RECURSIVE TailCheck(_, _, _, _, _, _)
TailCheck(dias, long_side, point_a, index, better_somewhere, assumed) ==
    IF ~(index < Len(dias[long_side]))
    THEN [better_somewhere |-> better_somewhere, assumed |-> assumed]
    ELSE LET point_p == dias[long_side][index + 1]
             coef_ap == Minus(point_p, point_a)
             cmp == ThreeWay(coef_ap.fee, 0)
         IN  TailCheck(dias, long_side, point_a, index + 1,
                       Better(better_somewhere, long_side, cmp),
                       assumed /\ Constructed(coef_ap))

\* CompareFeerateDiagram(dia0, dia1): the std::partial_ordering it returns if
\* it returns, and whether every Assume on the way held.
CompareFeerateDiagram(dia0, dia1) ==
    LET dias == [d \in {0, 1} |-> IF d = 0 THEN dia0 ELSE dia1]
        overlap == Overlap(dias, [d \in {0, 1} |-> 1], [d \in {0, 1} |-> FALSE], TRUE)
        long_side == IF overlap.next_index[1] # Len(dia1) THEN 1 ELSE 0
        point_a == dias[Other(long_side)][overlap.next_index[Other(long_side)]]
        tail == TailCheck(dias, long_side, point_a, overlap.next_index[long_side],
                          overlap.better_somewhere,
                          /\ overlap.assumed
                          /\ overlap.next_index[Other(long_side)]
                                = Len(dias[Other(long_side)]))
        better_somewhere == tail.better_somewhere
    IN  [cmp |-> IF better_somewhere[0] /\ better_somewhere[1] THEN "unordered"
                 ELSE IF better_somewhere[0] = better_somewhere[1] THEN "equivalent"
                 ELSE IF better_somewhere[1] THEN "less"
                 ELSE "greater",
         assumed |-> tail.assumed,
         steps |-> overlap.steps]

\* What a call gives in a build: where a failed Assume aborts, a call that
\* fails one does not return.
Returned(result, abort_on_failed_assume) ==
    IF abort_on_failed_assume /\ ~result.assumed THEN "aborted" ELSE result.cmp

\* The passes of the overlap loop a call ran through: all of them, or, where a
\* failed Assume aborts, those up to the first pass that fails one.
Passes(result, abort_on_failed_assume) ==
    LET steps == result.steps
        failing == {k \in 1..Len(steps) : ~steps[k].assumed}
        last == IF abort_on_failed_assume /\ failing # {}
                THEN CHOOSE k \in failing : \A j \in failing : k <= j
                ELSE Len(steps)
    IN  SubSeq(steps, 1, last)

\* Two diagrams A and B.
InitCompare == IdleButFeeFrac /\ ff_in \in Diagrams \X Diagrams /\ ff_out = Nullopt

\* A is compared with B, B with A, and A with itself.
CompareDiagrams ==
    /\ ff_out = Nullopt
    /\ LET ab == CompareFeerateDiagram(ff_in[1], ff_in[2])
           ba == CompareFeerateDiagram(ff_in[2], ff_in[1])
           aa == CompareFeerateDiagram(ff_in[1], ff_in[1])
       IN  \E abort_on_failed_assume \in BOOLEAN :
            ff_out' = Some([ab |-> Returned(ab, abort_on_failed_assume),
                            ba |-> Returned(ba, abort_on_failed_assume),
                            aa |-> Returned(aa, abort_on_failed_assume),
                            sweep |-> Passes(ab, abort_on_failed_assume)])
    /\ UNCHANGED <<ff_in, feefrac_rest>>

NextCompare == CompareDiagrams

SpecCompare == InitCompare /\ [][NextCompare]_vars

\* C30: for diagrams A and B that start at (0, 0) and whose sizes never
\* decrease, CompareFeerateDiagram(A, B) is less iff CompareFeerateDiagram(B, A)
\* is greater, unordered iff the swapped call is unordered, and
\* CompareFeerateDiagram(A, A) is equivalent.
C30_SwapReversesComparison ==
    ff_out # Nullopt =>
        /\ (ff_out[1].ab = "less") <=> (ff_out[1].ba = "greater")
        /\ (ff_out[1].ab = "unordered") <=> (ff_out[1].ba = "unordered")
        /\ ff_out[1].aa = "equivalent"

(***************************************************************************)
(* GetTxAncestorsAndDescendants                                            *)
(***************************************************************************)
\* Up to MaxTxs transactions; transaction t of the input is named t, and 0
\* names a transaction that is not in the input (an outpoint of a confirmed
\* transaction, as the random outpoints of the test).
MaxTxs == 4
Outside == 0

\* The inputs of the transactions: parents[t] are the transactions whose
\* outputs t spends.  A transaction spends outputs that exist when it is made,
\* so its parents come before it.
ParentLists(n) ==
    IF n = 0 THEN {<<>>}
    ELSE {p \in [1..n -> SUBSET (Outside..(n - 1))] :
            \A t \in 1..n : p[t] \subseteq Outside..(t - 1)}

\* The input transactions that spend an output of one of from.
ChildrenOf(parents, from) ==
    {c \in 1..Len(parents) : parents[c] \cap from # {}}

\* The input transactions of which one of from spends an output.
ParentsOf(parents, from) ==
    (UNION {parents[t] : t \in from}) \cap (1..Len(parents))

\* The walk from a transaction along parent edges (up) or child edges, with
\* the set of the transactions visited so far: a transaction found again is
\* not entered again.
RECURSIVE Walk(_, _, _, _)
Walk(parents, up, frontier, visited) ==
    LET found == (IF up THEN ParentsOf(parents, frontier)
                  ELSE ChildrenOf(parents, frontier)) \ visited
    IN  IF found = {} THEN visited
        ELSE Walk(parents, up, found, visited \cup found)

\* Only the parents and the children of each transaction.
GetTxAncestorsAndDescendants_DirectOnly(parents) ==
    [t \in 1..Len(parents) |->
        <<{t} \cup ParentsOf(parents, {t}), {t} \cup ChildrenOf(parents, {t})>>]

\* GetTxAncestorsAndDescendants(transactions): for each txid the tuple of its
\* ancestors and its descendants, each set holding the transaction itself.
GetTxAncestorsAndDescendants(parents) ==
    [t \in 1..Len(parents) |->
        <<Walk(parents, TRUE, {t}, {t}), Walk(parents, FALSE, {t}, {t})>>]

\* The transactions of one call.
InitAncestors ==
    /\ IdleButFeeFrac
    /\ ff_in \in UNION {ParentLists(n) : n \in 0..MaxTxs}
    /\ ff_out = Nullopt

\* The call.
ComputeAncestorsAndDescendants ==
    /\ ff_out = Nullopt
    /\ ff_out' = Some(GetTxAncestorsAndDescendants(ff_in))
    /\ UNCHANGED <<ff_in, feefrac_rest>>

NextAncestors == ComputeAncestorsAndDescendants

SpecAncestors == InitAncestors /\ [][NextAncestors]_vars

\* b is reached from a over at most k parent edges inside the input.
RECURSIVE SpendsThrough(_, _, _, _)
SpendsThrough(parents, a, b, k) ==
    \/ a = b
    \/ /\ k > 0
       /\ \E p \in parents[a] \cap (1..Len(parents)) : SpendsThrough(parents, p, b, k - 1)

\* C31: the result has one entry per input transaction; the ancestors of a
\* transaction are itself and every input transaction reached through parent
\* edges, its descendants itself and everything reached through child edges,
\* each once, and a is a descendant of b iff b is an ancestor of a.
C31_AncestorsAndDescendants ==
    ff_out # Nullopt =>
        LET result == ff_out[1]
            txids == 1..Len(ff_in)
        IN  /\ DOMAIN result = txids
            /\ \A a \in txids :
                /\ result[a][1] = {b \in txids : SpendsThrough(ff_in, a, b, Len(ff_in))}
                /\ result[a][2] = {b \in txids : SpendsThrough(ff_in, b, a, Len(ff_in))}
            /\ \A a, b \in txids : (a \in result[b][2]) <=> (b \in result[a][1])

\* The diamond of the test: 2 and 3 spend 1, and 4 spends both.
C31_Witness ==
    /\ ff_out # Nullopt
    /\ Len(ff_in) = 4
    /\ ff_in[2] = {1} /\ ff_in[3] = {1} /\ ff_in[4] = {2, 3}
    /\ ff_out[1][4][1] = {1, 2, 3, 4}
    /\ ff_out[1][1][2] = {1, 2, 3, 4}
    /\ ff_out[1][2][2] = {2, 4}

(***************************************************************************)
(* CachedMempoolEstimates::cache_mutex under concurrent get and update     *)
(***************************************************************************)
\* The threads: two that call get and one that calls update, and the number
\* of calls they begin between them.
MaxLockCalls == 4
Readers == {"reader1", "reader2"}
Writers == {"writer"}
Threads == Readers \cup Writers

\* How many shared ownerships of cache_mutex there are.
RECURSIVE SharedCount(_, _)
SharedCount(shared, threads) ==
    IF threads = {} THEN 0
    ELSE LET t == CHOOSE x \in threads : TRUE
         IN  shared[t] + SharedCount(shared, threads \ {t})

shared_mutex_rest == <<gate_vars, cache_vars, est_vars, pct_vars, agg_vars, fc_vars,
                       ntime_vars, tenmin_vars, lock_vars, race_vars, feefrac_vars,
                       last_block_race_vars>>

\* No thread is inside a call and nobody owns cache_mutex.  Taking a
\* std::shared_mutex in shared mode on a thread that owns it already is
\* undefined; what builds do differs in whether lock_shared waits behind a
\* writer that waits for the readers to leave, so the build is either.
InitSharedMutex ==
    /\ IdleGate /\ InitCacheVars /\ InitEstVars /\ IdlePct /\ InitAggVars
    /\ IdleFc /\ IdleNTime /\ IdleTenMin /\ IdleLocks /\ IdleRace /\ IdleFeeFrac
    /\ IdleLastBlockRace
    /\ sm_pc = [t \in Threads |-> "idle"]
    /\ sm_shared = [t \in Threads |-> 0]
    /\ sm_write_entered = FALSE
    /\ sm_writer_first \in BOOLEAN
    /\ sm_calls = 0

\* A thread calls get, or the writer calls update.
SmCall ==
    /\ sm_calls < MaxLockCalls
    /\ \E t \in Threads :
        /\ sm_pc[t] = "idle"
        /\ sm_pc' = [sm_pc EXCEPT ![t] = IF t \in Readers THEN "get" ELSE "update"]
    /\ sm_calls' = sm_calls + 1
    /\ UNCHANGED <<sm_shared, sm_write_entered, sm_writer_first, shared_mutex_rest>>

\* std::shared_lock lock(cache_mutex): the first statement of get, and again
\* the first statement of isStale, which get calls with its own lock held.
\* lock_shared returns when no writer owns the mutex or has announced itself.
LockShared(t) ==
    /\ sm_pc[t] \in {"get", "isStale"}
    /\ ~sm_write_entered
    /\ sm_shared' = [sm_shared EXCEPT ![t] = @ + 1]
    /\ sm_pc' = [sm_pc EXCEPT ![t] = IF @ = "get" THEN "isStale" ELSE "stale_check"]
    /\ UNCHANGED <<sm_write_entered, sm_writer_first, sm_calls, shared_mutex_rest>>

\* isStale compares the clock and returns: its lock goes out of scope.
IsStaleReturns(t) ==
    /\ sm_pc[t] = "stale_check"
    /\ sm_shared' = [sm_shared EXCEPT ![t] = @ - 1]
    /\ sm_pc' = [sm_pc EXCEPT ![t] = "find"]
    /\ UNCHANGED <<sm_write_entered, sm_writer_first, sm_calls, shared_mutex_rest>>

\* get returns nullopt or what estimates.find gave: its lock goes out of scope.
GetReturns(t) ==
    /\ sm_pc[t] = "find"
    /\ sm_shared' = [sm_shared EXCEPT ![t] = @ - 1]
    /\ sm_pc' = [sm_pc EXCEPT ![t] = "idle"]
    /\ UNCHANGED <<sm_write_entered, sm_writer_first, sm_calls, shared_mutex_rest>>

\* std::unique_lock lock(cache_mutex) in update: the writer enters.  Where
\* writers go first it announces itself while readers are still inside;
\* elsewhere it enters only when there is none.
LockEnters(t) ==
    /\ sm_pc[t] = "update"
    /\ ~sm_write_entered
    /\ sm_writer_first \/ SharedCount(sm_shared, Threads) = 0
    /\ sm_write_entered' = TRUE
    /\ sm_pc' = [sm_pc EXCEPT ![t] = "drain"]
    /\ UNCHANGED <<sm_shared, sm_writer_first, sm_calls, shared_mutex_rest>>

\* lock() returns once the readers have left.
LockOwned(t) ==
    /\ sm_pc[t] = "drain"
    /\ SharedCount(sm_shared, Threads) = 0
    /\ sm_pc' = [sm_pc EXCEPT ![t] = "assign"]
    /\ UNCHANGED <<sm_shared, sm_write_entered, sm_writer_first, sm_calls, shared_mutex_rest>>

\* update replaces the map and the time stamp and returns: the lock goes out
\* of scope.
UpdateReturns(t) ==
    /\ sm_pc[t] = "assign"
    /\ sm_write_entered' = FALSE
    /\ sm_pc' = [sm_pc EXCEPT ![t] = "idle"]
    /\ UNCHANGED <<sm_shared, sm_writer_first, sm_calls, shared_mutex_rest>>

SmLockShared == \E t \in Readers : LockShared(t)
SmIsStaleReturns == \E t \in Readers : IsStaleReturns(t)
SmGetReturns == \E t \in Readers : GetReturns(t)
SmLockEnters == \E t \in Writers : LockEnters(t)
SmLockOwned == \E t \in Writers : LockOwned(t)
SmUpdateReturns == \E t \in Writers : UpdateReturns(t)

\* What thread t can do inside its call.
SmRuns(t) ==
    \/ LockShared(t) \/ IsStaleReturns(t) \/ GetReturns(t)
    \/ LockEnters(t) \/ LockOwned(t) \/ UpdateReturns(t)

NextSharedMutex ==
    \/ SmCall \/ SmLockShared \/ SmIsStaleReturns \/ SmGetReturns
    \/ SmLockEnters \/ SmLockOwned \/ SmUpdateReturns

\* Every thread that can take a step of its call takes it in the end: the
\* threads are scheduled, and nothing but cache_mutex makes them wait.
SpecSharedMutex ==
    /\ InitSharedMutex /\ [][NextSharedMutex]_vars
    /\ \A t \in Threads : WF_vars(SmRuns(t))

\* C32: every call of get and update returns, whatever the interleaving of
\* the readers and the writer: the shared lock isStale takes inside get is
\* never kept waiting for good by an update that waits for the exclusive lock.
C32_GetAndUpdateTerminate ==
    \A t \in Threads : (sm_pc[t] # "idle") ~> (sm_pc[t] = "idle")

(***************************************************************************)
(* The slots InsertNewBlock touches.                                       *)
(***************************************************************************)
\* C33: every block-connected event that reaches InsertNewBlock and finds an
\* empty slot reads the height of a predecessor that lies inside the ring:
\* std::prev(empty_block_it) is one of the three slots.
C33_PredecessorInsideRing ==
    [][(AreTopBlocksInOrder(top_blocks) /\ FirstEmpty(top_blocks) <= Len(top_blocks))
            => (FirstEmpty(top_blocks) - 1) \in 1..Len(top_blocks)]_vars

(***************************************************************************)
(* LastBlockForecaster::EstimateFee beside the block-connected callback    *)
(***************************************************************************)
\* The notification thread delivers up to MaxConnects blocks.
MaxConnects == 2

last_block_race_rest ==
    <<blocks_percentiles, bf_chain_tip_height, mp_cache, fc_call, fc_event, fc_subject,
      gate_vars, cache_vars, est_vars, pct_vars, agg_vars, ntime_vars, tenmin_vars,
      lock_vars, race_vars, feefrac_vars, shared_mutex_vars>>

\* The two members of the forecaster.
LbState == [height |-> lb_chain_tip_height, percentiles |-> blocks_percentile]

\* A LastBlockForecaster as constructed; no call is under way.
InitLastBlockRace ==
    /\ IdleGate /\ InitCacheVars /\ InitEstVars /\ IdlePct /\ InitAggVars
    /\ InitFcVars /\ fc_subject = "LastBlockForecaster"
    /\ IdleNTime /\ IdleTenMin /\ IdleLocks /\ IdleRace /\ IdleFeeFrac /\ IdleSharedMutex
    /\ lb_reader = Nullopt /\ lb_writer = Nullopt /\ lb_returned = Nullopt
    /\ lb_connects = 0

\* The notification thread enters MempoolTransactionsRemovedForBlock: it
\* assigns chain_tip_height and goes on to linearize the block and to compute
\* its percentiles.  A call of EstimateFee under way takes note of the state
\* this callback will leave.
LbConnectBegins ==
    /\ lb_writer = Nullopt
    /\ lb_connects < MaxConnects
    /\ lb_connects' = lb_connects + 1
    /\ \E size_per_feerate \in FeeRateSamples, nBlockHeight \in 1..MaxHeight :
        LET block_percentiles == BlockPercentilesOf(size_per_feerate)
            after == [height |-> nBlockHeight,
                      percentiles |-> Stored(blocks_percentile, block_percentiles)]
        IN  /\ lb_chain_tip_height' = nBlockHeight
            /\ lb_writer' = Some([percentiles |-> block_percentiles, before |-> LbState,
                                  after |-> after])
            /\ lb_reader' = IF lb_reader = Nullopt THEN lb_reader
                            ELSE Some([lb_reader[1] EXCEPT !.states = @ \cup {after}])
    /\ UNCHANGED <<blocks_percentile, lb_returned, last_block_race_rest>>

\* The callback stores the percentiles, if p75 is not zero, and returns.
LbConnectEnds ==
    /\ lb_writer # Nullopt
    /\ blocks_percentile' = Stored(blocks_percentile, lb_writer[1].percentiles)
    /\ lb_writer' = Nullopt
    /\ UNCHANGED <<lb_chain_tip_height, lb_reader, lb_returned, lb_connects,
                   last_block_race_rest>>

\* A thread enters EstimateFee and copies chain_tip_height into the options
\* of its result.  Nothing makes it wait for the callback.
LbEstimateBegins ==
    /\ lb_reader = Nullopt
    /\ \E targetBlocks \in 0..(LAST_BLOCK_FORECAST_MAX_TARGET + 1) :
        lb_reader' = Some([targetBlocks |-> targetBlocks,
                           m_block_height |-> lb_chain_tip_height,
                           checked |-> FALSE,
                           states |-> IF lb_writer = Nullopt THEN {LbState}
                                      ELSE {lb_writer[1].before, lb_writer[1].after}])
    /\ lb_returned' = Nullopt
    /\ UNCHANGED <<blocks_percentile, lb_chain_tip_height, lb_writer, lb_connects,
                   last_block_race_rest>>

\* What the call hands back, with the states it could have met.
LbReturn(result) ==
    /\ lb_returned' = Some([targetBlocks |-> lb_reader[1].targetBlocks,
                            m_block_height |-> lb_reader[1].m_block_height,
                            result |-> result,
                            states |-> lb_reader[1].states])
    /\ lb_reader' = Nullopt

\* The checks of the target and of blocks_percentile.empty(): an error is
\* returned, or the call goes on.
LbEstimateChecks ==
    /\ lb_reader # Nullopt /\ ~lb_reader[1].checked
    /\ LET early == TargetCheck(lb_reader[1].targetBlocks, LAST_BLOCK_FORECAST_MAX_TARGET) IN
        IF early # None THEN LbReturn(Forecast(0, 0, early))
        ELSE IF IsEmptyResult(blocks_percentile)
             THEN LbReturn(Forecast(0, 0, ErrInsufficientBlockData))
             ELSE /\ lb_reader' = Some([lb_reader[1] EXCEPT !.checked = TRUE])
                  /\ UNCHANGED lb_returned
    /\ UNCHANGED <<blocks_percentile, lb_chain_tip_height, lb_writer, lb_connects,
                   last_block_race_rest>>

\* The call reads p25 and p50 of blocks_percentile into its result and returns.
LbEstimateReturns ==
    /\ lb_reader # Nullopt /\ lb_reader[1].checked
    /\ LbReturn(Forecast(blocks_percentile.p25, blocks_percentile.p50, None))
    /\ UNCHANGED <<blocks_percentile, lb_chain_tip_height, lb_writer, lb_connects,
                   last_block_race_rest>>

NextLastBlockRace ==
    \/ LbConnectBegins \/ LbConnectEnds
    \/ LbEstimateBegins \/ LbEstimateChecks \/ LbEstimateReturns

SpecLastBlockRace == InitLastBlockRace /\ [][NextLastBlockRace]_vars

\* What EstimateFee returns from a forecaster in state s.
ResultIn(s, targetBlocks) ==
    LET early == TargetCheck(targetBlocks, LAST_BLOCK_FORECAST_MAX_TARGET) IN
    IF early # None THEN Forecast(0, 0, early)
    ELSE IF IsEmptyResult(s.percentiles) THEN Forecast(0, 0, ErrInsufficientBlockData)
    ELSE Forecast(s.percentiles.p25, s.percentiles.p50, None)

\* C34: what an EstimateFee call returns, height and estimates, is what the
\* forecaster held before or after a callback that ran beside it, never the
\* height of one state with the percentiles of another: in particular not the
\* new block's height with the percentiles of the block before.
C34_HeightAndPercentilesOfOneState ==
    lb_returned # Nullopt =>
        \E s \in lb_returned[1].states :
            /\ lb_returned[1].m_block_height = s.height
            /\ lb_returned[1].result = ResultIn(s, lb_returned[1].targetBlocks)

(***************************************************************************)
(* CompareFeerateDiagram against the curves the diagrams stand for         *)
(***************************************************************************)
\* The segments of a diagram are chunks: none has a fee without a size, and
\* no later one has a higher fee rate than an earlier one.
IsConcave(d) ==
    /\ \A k \in 1..(Len(d) - 1) : Constructed(Minus(d[k + 1], d[k]))
    /\ \A j, k \in 1..(Len(d) - 1) :
        j < k => (d[k + 1].fee - d[k].fee) * (d[j + 1].size - d[j].size)
                    <= (d[j + 1].fee - d[j].fee) * (d[k + 1].size - d[k].size)

\* The fee of the curve of diagram d at size x, as a fraction: on the segment
\* that holds x, and the fee of the last point from its size on.
FeeAt(d, x) ==
    IF x >= d[Len(d)].size THEN [num |-> d[Len(d)].fee, den |-> 1]
    ELSE LET k == CHOOSE i \in 1..(Len(d) - 1) : d[i].size <= x /\ x < d[i + 1].size
             run == d[k + 1].size - d[k].size
         IN  [num |-> d[k].fee * run + (x - d[k].size) * (d[k + 1].fee - d[k].fee),
              den |-> run]

\* Whether the curve of a lies above the curve of b at size x.
AboveAt(a, b, x) == FeeAt(a, x).num * FeeAt(b, x).den > FeeAt(b, x).num * FeeAt(a, x).den

\* The comparison of the two curves over the sizes where either bends.
Pointwise(a, b) ==
    LET sizes == {a[k].size : k \in 1..Len(a)} \cup {b[k].size : k \in 1..Len(b)}
        a_above == \E x \in sizes : AboveAt(a, b, x)
        b_above == \E x \in sizes : AboveAt(b, a, x)
    IN  IF a_above /\ b_above THEN "unordered"
        ELSE IF a_above THEN "greater"
        ELSE IF b_above THEN "less"
        ELSE "equivalent"

\* C35: for diagrams with sizes that never decrease and segment fee rates that
\* never increase, CompareFeerateDiagram(A, B) is the comparison of the two
\* curves, the shorter one continued by a horizontal line.
C35_ComparesTheCurves ==
    (ff_out # Nullopt /\ IsConcave(ff_in[1]) /\ IsConcave(ff_in[2])) =>
        ff_out[1].ab = Pointwise(ff_in[1], ff_in[2])

(***************************************************************************)
(* The side the overlap sweep takes next                                   *)
(***************************************************************************)
\* C36 as stated: in every pass of the overlap loop the side taken as
\* unproc_side, whose next point is P and whose index moves on, is the diagram
\* whose next point has the larger size.
C36_UnprocHasLargerSize ==
    ff_out # Nullopt =>
        \A k \in 1..Len(ff_out[1].sweep) :
            LET step == ff_out[1].sweep[k]
                unproc == step.unproc_side
            IN  /\ step.point_p = step.next[unproc]
                /\ step.after[unproc] = step.before[unproc] + 1
                /\ step.next[unproc].size >= step.next[Other(unproc)].size

\* C36: in every pass of the overlap loop the side taken as unproc_side, whose
\* next point is P, compared against the points A and B around it on the other
\* diagram, and whose index moves on, is the diagram whose next point has the
\* smaller size, and diagram 0 when the two sizes are equal.
C36_UnprocHasSmallerSize ==
    ff_out # Nullopt =>
        \A k \in 1..Len(ff_out[1].sweep) :
            LET step == ff_out[1].sweep[k]
                unproc == step.unproc_side
                other == Other(unproc)
            IN  /\ step.point_p = step.next[unproc]
                /\ step.point_a = ff_in[other + 1][step.before[other]]
                /\ step.point_b = step.next[other]
                /\ step.after[unproc] = step.before[unproc] + 1
                /\ step.next[unproc].size <= step.next[other].size
                /\ step.next[0].size = step.next[1].size => unproc = 0

\* A sweep of two passes: one where the next points differ in size and one
\* where they have the same size.
C36_Witness ==
    /\ ff_out # Nullopt
    /\ \E j, k \in 1..Len(ff_out[1].sweep) :
        /\ ff_out[1].sweep[j].next[0].size > ff_out[1].sweep[j].next[1].size
        /\ ff_out[1].sweep[j].unproc_side = 1
        /\ ff_out[1].sweep[k].next[0].size = ff_out[1].sweep[k].next[1].size
        /\ ff_out[1].sweep[k].unproc_side = 0

(***************************************************************************)
(* MemPoolPolicyEstimator::MempoolTransactionsRemovedForBlock: the weights *)
(* behind roughly_synced.                                                  *)
(***************************************************************************)
\* The transactions the callback can be handed: MaxBlockTxs transactions,
\* transaction k of weight k.
MaxBlockTxs == 2

BlockTxs == {[hash |-> k, weight |-> k] : k \in 1..MaxBlockTxs}

\* GetTransactionWeight(tx).  The three sums are uint32_t; every one of them is
\* a sum over transactions of one block or one block template, which weigh at
\* most MAX_BLOCK_WEIGHT = 4,000,000 together, so none of them wraps.
GetTransactionWeight(tx) == tx.weight

\* The vectors of distinct transactions, listed by increasing hash (the sums
\* and the set of hashes do not depend on the order).
TxVectors ==
    {v \in UNION {[1..n -> BlockTxs] : n \in 0..MaxBlockTxs} :
        \A i \in 1..(Len(v) - 1) : v[i].hash < v[i + 1].hash}

\* for (const auto& tx : txs) weight += GetTransactionWeight(*tx), for the
\* transactions of txs from index i on whose hash is in `among`.
RECURSIVE WeightFrom(_, _, _)
WeightFrom(txs, i, among) ==
    IF i > Len(txs) THEN 0
    ELSE (IF txs[i].hash \in among THEN GetTransactionWeight(txs[i]) ELSE 0)
         + WeightFrom(txs, i + 1, among)

AllHashes == {tx.hash : tx \in BlockTxs}

BlockRoughlySynced_AtLeastHalf(txs_removed_for_block, expected_block_txs, block_txs) ==
    LET block_transactions == {block_txs[i].hash : i \in 1..Len(block_txs)}
        block_weight == WeightFrom(block_txs, 1, AllHashes)
        removed_expected_txs_weight == WeightFrom(expected_block_txs, 1, block_transactions)
        removed_txs_weight == WeightFrom(txs_removed_for_block, 1, AllHashes)
        mid_block_weight == block_weight \div 2
    IN  (removed_txs_weight >= mid_block_weight)
            /\ (removed_expected_txs_weight >= mid_block_weight)

\* The value of roughly_synced the callback computes from its three vectors.
BlockRoughlySynced(txs_removed_for_block, expected_block_txs, block_txs) ==
    LET block_transactions == {block_txs[i].hash : i \in 1..Len(block_txs)}
        block_weight == WeightFrom(block_txs, 1, AllHashes)
        removed_expected_txs_weight == WeightFrom(expected_block_txs, 1, block_transactions)
        removed_txs_weight == WeightFrom(txs_removed_for_block, 1, AllHashes)
        mid_block_weight == block_weight \div 2
    IN  (removed_txs_weight > mid_block_weight)
            /\ (removed_expected_txs_weight > mid_block_weight)

synced_rest == <<hist, started_empty, cache_vars, est_vars, pct_vars, agg_vars, fc_vars,
                 ntime_vars, tenmin_vars, lock_vars, race_vars, shared_mutex_vars,
                 last_block_race_vars>>

\* The estimator after construction: top_blocks holds any content.
InitSynced ==
    /\ InitGateVars /\ InitCacheVars /\ InitEstVars /\ IdlePct /\ InitAggVars
    /\ IdleFc /\ IdleNTime /\ IdleTenMin /\ IdleUnits

\* The whole callback, observed once from any content of the ring: ff_in keeps
\* the arguments and ff_out the block_info handed to UpdateTopBlocks.
TransactionsRemovedForBlock ==
    /\ ff_out = Nullopt
    /\ \E txs_removed_for_block \in TxVectors, expected_block_txs \in TxVectors,
          block_txs \in TxVectors, nBlockHeight \in 1..MaxHeight :
            LET new_block_info ==
                    [height |-> nBlockHeight,
                     roughly_synced |-> BlockRoughlySynced(txs_removed_for_block,
                                                           expected_block_txs, block_txs)]
            IN  /\ top_blocks' \in UpdateTopBlocks(top_blocks, new_block_info)
                /\ ff_in' = [txs_removed_for_block |-> txs_removed_for_block,
                             expected_block_txs |-> expected_block_txs,
                             block_txs |-> block_txs,
                             nBlockHeight |-> nBlockHeight]
                /\ ff_out' = Some(new_block_info)
    /\ UNCHANGED synced_rest

NextSynced == TransactionsRemovedForBlock

SpecSynced == InitSynced /\ [][NextSynced]_vars

\* The summed weight of a set of transactions.
RECURSIVE SummedWeight(_)
SummedWeight(txs) ==
    IF txs = {} THEN 0
    ELSE LET tx == CHOOSE t \in txs : TRUE IN tx.weight + SummedWeight(txs \ {tx})

Elements(v) == {v[i] : i \in 1..Len(v)}

\* C37: on block-connected, the block is recorded as roughly_synced iff the
\* summed weight of the transactions removed from the mempool for the block and
\* the summed weight of the expected-template transactions that are in the
\* block are both strictly greater than floor(block_weight / 2); a block with
\* zero matched weight, in particular an empty block, is never recorded as
\* synced.
C37_SyncedIffBothAboveHalf ==
    ff_out # Nullopt =>
        LET recorded == ff_out[1]
            block == Elements(ff_in.block_txs)
            removed == SummedWeight(Elements(ff_in.txs_removed_for_block))
            matched == SummedWeight(Elements(ff_in.expected_block_txs) \cap block)
            half == SummedWeight(block) \div 2
        IN  /\ recorded.height = ff_in.nBlockHeight
            /\ \E i \in 1..Len(top_blocks) : top_blocks[i] = recorded
            /\ recorded.roughly_synced <=> (removed > half /\ matched > half)
            /\ (removed = 0 \/ matched = 0 \/ block = {}) => ~recorded.roughly_synced

\* A block of odd weight is recorded as synced with both sums just above half,
\* in a ring that held two blocks before.
C37_Witness ==
    /\ ff_out # Nullopt
    /\ ff_out[1].roughly_synced
    /\ SummedWeight(Elements(ff_in.block_txs)) = 3
    /\ SummedWeight(Elements(ff_in.txs_removed_for_block)) = 2
    /\ SummedWeight(Elements(ff_in.expected_block_txs) \cap Elements(ff_in.block_txs)) = 2
    /\ top_blocks[3] = ff_out[1]

(***************************************************************************)
(* MemPoolForecaster: when the cache is written and when it answers.       *)
(***************************************************************************)
\* Whether the cache of a recorded forecaster state held a value no older
\* than cache_life.
FreshIn(state) ==
    state.mp_cache # Nullopt /\ state.now - state.mp_cache[1].last_updated <= cache_life

\* C38: MemPoolForecaster writes its cache only after a computation that
\* produced non-empty percentiles with p75 != 0, and every failing call leaves
\* the cache unchanged; while the cached value is fresh, EstimateFee(1) returns
\* low = p25 and high = p50 of the cached value without linearizing the
\* mempool, whatever the mempool holds by then.
C38_CacheWrittenOnSuccessOnly ==
    (fc_call # Nullopt /\ fc_call[1].forecaster = "MemPoolForecaster") =>
        LET c == fc_call[1]
            before == c.before
        IN  /\ mp_cache # before.mp_cache =>
                /\ c.block_fee_stats # Nullopt
                /\ LET computed == BlockPercentilesOf(c.block_fee_stats[1])
                   IN  /\ ~IsEmptyResult(computed)
                       /\ computed.p75 # 0
                       /\ mp_cache[1].value = computed
            /\ c.result.err_message # None => mp_cache = before.mp_cache
            /\ (FreshIn(before) /\ c.targetBlocks = 1) =>
                /\ c.result = Forecast(before.mp_cache[1].value.p25,
                                       before.mp_cache[1].value.p50, None)
                /\ c.block_fee_stats = Nullopt
                /\ mp_cache = before.mp_cache

\* EstimateFee(1) has answered from a value cached cache_life seconds before.
C38_Witness ==
    /\ fc_call # Nullopt
    /\ fc_call[1].forecaster = "MemPoolForecaster"
    /\ fc_call[1].targetBlocks = 1
    /\ FreshIn(fc_call[1].before)
    /\ now - mp_cache[1].last_updated = cache_life
    /\ fc_call[1].result.err_message = None
    /\ fc_call[1].block_fee_stats = Nullopt
    /\ fc_call[1].result.high # fc_call[1].result.low

(***************************************************************************)
(* EstimateBlockFeeRatesWithMempool: which entries a block's percentiles   *)
(* are computed over.                                                      *)
(***************************************************************************)
\* The function is applied with confirmation targets in 1..MaxConfTarget.
MaxConfTarget == 2

\* The vsizes of a quarter of a block, half a block and a whole block.
SweepSizes == {p25_Size \div WITNESS_SCALE_FACTOR, p50_Size \div WITNESS_SCALE_FACTOR,
               DEFAULT_BLOCK_MAX_WEIGHT \div WITNESS_SCALE_FACTOR}

\* The histograms handed to the function: up to MaxLen entries.
SweepInputs ==
    UNION {[1..n -> {Entry(r, v) : r \in 1..MaxRate, v \in SweepSizes}] : n \in 0..MaxLen}

InitSweep ==
    /\ IdleButFeeFrac
    /\ ff_in \in [mempool_fee_stats : SweepInputs, confTarget : 1..MaxConfTarget]
    /\ ff_out = Nullopt

\* The function is applied to the histogram and the target.
EstimateBlockFeeRates ==
    /\ ff_out = Nullopt
    /\ ff_out' = Some(EstimateBlockFeeRatesWithMempool(ff_in.mempool_fee_stats, ff_in.confTarget))
    /\ UNCHANGED <<ff_in, feefrac_rest>>

NextSweep == EstimateBlockFeeRates

SpecSweep == InitSweep /\ [][NextSweep]_vars

\* The weight of the entries first..last of rs.
RECURSIVE RangeWeight(_, _, _)
RangeWeight(rs, first, last) ==
    IF first > last THEN 0
    ELSE rs[first].vsize * WITNESS_SCALE_FACTOR + RangeWeight(rs, first + 1, last)

\* The last entry whose weight is accumulated into the block that begins at
\* first: the one that fills the block, or the final entry of the input.
FillsAt(rs, first) ==
    CHOOSE last \in first..Len(rs) :
        /\ RangeWeight(rs, first, last) >= DEFAULT_BLOCK_MAX_WEIGHT \/ last = Len(rs)
        /\ \A j \in first..(last - 1) : RangeWeight(rs, first, j) < DEFAULT_BLOCK_MAX_WEIGHT

\* The blocks of the sweep, from block_number down, with the entries whose
\* weight each accumulates.
RECURSIVE AccumulatedBlocks(_, _, _)
AccumulatedBlocks(rs, first, block_number) ==
    IF block_number < 1 \/ first > Len(rs) THEN {}
    ELSE LET last == FillsAt(rs, first)
         IN  {[block |-> block_number, first |-> first, last |-> last]}
             \cup AccumulatedBlocks(rs, last + 1, block_number - 1)

\* C39: the percentiles stored for a block are computed over exactly the
\* entries whose weight was accumulated into that block's weight, including
\* the final entry of the input when the sweep ends there; the returned map
\* has keys only in 1..confTarget.
C39_PercentilesOverAccumulatedEntries ==
    ff_out # Nullopt =>
        LET rs == Reverse(ff_in.mempool_fee_stats)
            blocks == AccumulatedBlocks(rs, 1, ff_in.confTarget)
            blocks_fee_rates_estimates == ff_out[1]
        IN  /\ DOMAIN blocks_fee_rates_estimates \subseteq 1..ff_in.confTarget
            /\ DOMAIN blocks_fee_rates_estimates = {b.block : b \in blocks}
            /\ \A b \in blocks :
                    blocks_fee_rates_estimates[b.block] =
                        CalculateBlockPercentiles(SubSeq(rs, b.first, b.last))

(***************************************************************************)
(* NTime::EstimateFee: where GetTxsWithinTime indexes tracking_stats.      *)
(***************************************************************************)
\* The rows with the test of the tracked hours left out.
IndexedRows_NoSizeCheck(stats, start_hr, end_hr) ==
    IF start_hr < 0 THEN {}
    ELSE IF (start_hr - end_hr) - 1 < 0 THEN {}
    ELSE end_hr..start_hr

\* The rows i at which GetTxsWithinTime evaluates tracking_stats[i]: i runs
\* from start_hr down to end_hr, every pass is skipped when
\* tracking_stats.size() <= static_cast<size_t>(start_hr) (a negative start_hr
\* converts to a value above every size), and the row is touched only where
\* the loop over j runs, i.e. with max_conf_index >= 0.
IndexedRows(stats, start_hr, end_hr) ==
    IF start_hr < 0 \/ GridSize(stats) <= start_hr THEN {}
    ELSE IF (start_hr - end_hr) - 1 < 0 THEN {}
    ELSE end_hr..start_hr

\* One call of GetTxsWithinTime: the rows it indexes and, per row, the last
\* cell j it reads with tracking_stats[i][j]: the cells 0..max_conf_index that
\* pass `tracking_stats[i].size() < j + 1 -> continue`.  The size of a row
\* outside the grid is indeterminate, so every j may pass there.
Indexed(stats, start_hr, end_hr) ==
    LET max_conf_index == (start_hr - end_hr) - 1
        rows == IndexedRows(stats, start_hr, end_hr)
    IN  [rows |-> rows,
         last_cell |-> [i \in rows |->
            IF i \notin 0..(GridSize(stats) - 1) THEN max_conf_index
            ELSE IF RowSize(stats, i) < max_conf_index + 1
                 THEN RowSize(stats, i) - 1 ELSE max_conf_index]]

\* The calls of GetTxsWithinTime one EstimateFee makes: none above MAX_HOURS,
\* the window's, and the historical one when the window sample is enough.
NTime_Indexed(stats, current_time, targetHours) ==
    IF NTimeTargetCheck(targetHours) # None THEN <<>>
    ELSE IF IsEmptyResult(GetWindowEstimate(stats, current_time, targetHours))
    THEN <<Indexed(stats, targetHours, 0)>>
    ELSE <<Indexed(stats, targetHours, 0),
           Indexed(stats, HistoricalStart(targetHours),
                   HistoricalStart(targetHours) - targetHours)>>

\* The targets: negative, zero, the ends of the range, the targets next to a
\* multiple of 24, and those whose ranges reach the last rows.
IndexTargets == {0 - MAX_HOURS, -1, 0, 1, 23, 24, 25, MAX_HOURS - 25, MAX_HOURS - 24,
                 MAX_HOURS - 23, MAX_HOURS - 1, MAX_HOURS, MAX_HOURS + 1}

NTimeIndexedEstimate ==
    /\ \E targetHours \in IndexTargets :
            nt_call' = Some([op |-> "EstimateFee", targetHours |-> targetHours,
                             result |-> NTime_Result(tracking_stats, get_time, targetHours),
                             indexed |-> NTime_Indexed(tracking_stats, get_time, targetHours)])
    /\ UNCHANGED <<tracking_stats, get_time, nt_updates, fc_vars, now, load_tried, fc_rest>>

NextNTimeIndex == NTimeIndexedEstimate

SpecNTimeIndex == InitNTimeEst /\ [][NextNTimeIndex]_vars

\* C40: for every integer target passed to NTime::EstimateFee (zero, negative,
\* 1..504) and every reachable grid state, GetTxsWithinTime indexes
\* tracking_stats only at rows 0..503 and only at cells that exist in the row,
\* and EstimateFee leaves the grid unchanged.
C40_IndexesInsideTheGrid ==
    [][(nt_call' # Nullopt /\ nt_call'[1].op = "EstimateFee") =>
            /\ tracking_stats' = tracking_stats
            /\ \A k \in 1..Len(nt_call'[1].indexed) :
                    LET pass == nt_call'[1].indexed[k] IN
                    /\ pass.rows \subseteq 0..(MAX_HOURS - 1)
                    /\ \A i \in pass.rows :
                            pass.last_cell[i] \in 0..(RowSize(tracking_stats, i) - 1)]_vars

\* A call whose window reaches the last row of the grid, and reads it up to
\* its last cell but one.
C40_Witness ==
    /\ nt_call # Nullopt
    /\ nt_call[1].op = "EstimateFee"
    /\ nt_call[1].targetHours = MAX_HOURS - 1
    /\ Len(nt_call[1].indexed) = 1
    /\ nt_call[1].indexed[1].rows = 0..(MAX_HOURS - 1)
    /\ nt_call[1].indexed[1].last_cell[MAX_HOURS - 1] = MAX_HOURS - 2
    /\ tracking_stats.cells # {}

=============================================================================
